---- MODULE Spec2Model ----
(***************************************************************************)
(* Model of the traefik modifier plugin: the orchestrator (modifier.go),   *)
(* the body transformer and response capture (body modifier), the header   *)
(* transformer and the query transformer.                                  *)
(*                                                                         *)
(* Byte strings are sequences of symbols.  One symbol stands for one byte, *)
(* except the symbols NoValue and NoValueEscaped, which stand for the      *)
(* multi-byte texts text/template and encoding/json produce; ByteLen       *)
(* gives them their real width.                                            *)
(***************************************************************************)
EXTENDS Integers, Sequences, FiniteSets, TLC

VARIABLES
    rs,      \* one call of the response stage: its arguments, then its result
    hs,      \* a request in the hands of the header transformer
    cs,      \* a Response Capture and the calls made on it
    qs,      \* a request in the hands of the query transformer
    ps,      \* a request under SetHeader, AddHeader and RemoveHeader calls
    ms,      \* one pass of handleResponseMasking: sink, capture, handler calls
    plugin,  \* the modifier instance New returns, shared by all requests
    clock,   \* time.Now().UnixNano()
    serving  \* each ServeHTTP call: its position, arguments and locals

vars == <<rs, hs, cs, qs, ps, ms, plugin, clock, serving>>

\* ------------------------------------------------------------------ bytes

\* The text text/template prints for a missing map key or a nil value.
NoValue == "<no value>"
\* The same text inside a JSON string as json.Marshal writes it (HTML-safe).
NoValueEscaped == "\\u003cno value\\u003e"
Quote == "\""
Space == " "

SymLen(c) == IF c = NoValue THEN 10 ELSE IF c = NoValueEscaped THEN 20 ELSE 1

\* len(b) of a Go byte slice or string.
RECURSIVE ByteLen(_)
ByteLen(bs) == IF bs = <<>> THEN 0 ELSE SymLen(Head(bs)) + ByteLen(Tail(bs))

\* Every sequence over S of length at most n.
RECURSIVE SeqsUpTo(_, _)
SeqsUpTo(S, n) ==
    IF n = 0 THEN {<<>>}
    ELSE LET shorter == SeqsUpTo(S, n - 1)
         IN shorter \cup {Append(s, c) : s \in {x \in shorter : Len(x) = n - 1}, c \in S}

\* bytes.ReplaceAll / strings.ReplaceAll for a non-empty old: leftmost,
\* non-overlapping occurrences.
RECURSIVE ReplaceAll(_, _, _)
ReplaceAll(bs, old, new) ==
    IF Len(bs) < Len(old) THEN bs
    ELSE IF SubSeq(bs, 1, Len(old)) = old
         THEN new \o ReplaceAll(SubSeq(bs, Len(old) + 1, Len(bs)), old, new)
         ELSE <<Head(bs)>> \o ReplaceAll(Tail(bs), old, new)

Contains(bs, c) == \E i \in 1..Len(bs) : bs[i] = c

\* ------------------------------------------------------------------- JSON
\* The JSON documents of the model: numbers, strings and arrays with
\* insignificant whitespace, as encoding/json reads them.

IsWs(c) == c = Space
Digits == {"0", "1", "2", "3", "4", "5", "6", "7", "8", "9"}
IsDigit(c) == c \in Digits

RECURSIVE SkipWs(_, _)
SkipWs(bs, i) == IF i <= Len(bs) /\ IsWs(bs[i]) THEN SkipWs(bs, i + 1) ELSE i

RECURSIVE SkipDigits(_, _)
SkipDigits(bs, i) == IF i <= Len(bs) /\ IsDigit(bs[i]) THEN SkipDigits(bs, i + 1) ELSE i

\* Index of the quote closing a string whose content starts at i; 0 if none.
RECURSIVE CloseQuote(_, _)
CloseQuote(bs, i) ==
    IF i > Len(bs) THEN 0
    ELSE IF bs[i] = Quote THEN i ELSE CloseQuote(bs, i + 1)

\* Index just after the JSON value starting at i; 0 when there is none.
RECURSIVE ParseValue(_, _)
RECURSIVE ParseElements(_, _)
ParseValue(bs, i) ==
    IF i > Len(bs) THEN 0
    ELSE IF IsDigit(bs[i]) THEN SkipDigits(bs, i)
    ELSE IF bs[i] = Quote
         THEN LET j == CloseQuote(bs, i + 1) IN IF j = 0 THEN 0 ELSE j + 1
    ELSE IF bs[i] = "["
         THEN LET j == SkipWs(bs, i + 1)
              IN IF j <= Len(bs) /\ bs[j] = "]" THEN j + 1 ELSE ParseElements(bs, j)
    ELSE 0

ParseElements(bs, i) ==
    LET k == ParseValue(bs, i)
    IN IF k = 0 THEN 0
       ELSE LET m == SkipWs(bs, k)
            IN IF m > Len(bs) THEN 0
               ELSE IF bs[m] = "]" THEN m + 1
               ELSE IF bs[m] = "," THEN ParseElements(bs, SkipWs(bs, m + 1))
               ELSE 0

\* json.Unmarshal(bs, &v) returns no error.
jsonValid(bs) ==
    LET k == ParseValue(bs, SkipWs(bs, 1))
    IN k # 0 /\ SkipWs(bs, k) = Len(bs) + 1

\* json.Marshal of the value a valid document parses to: no whitespace
\* outside strings, and "<" and ">" inside strings escaped.
RECURSIVE jsonEncode(_, _)
jsonEncode(bs, inString) ==
    IF bs = <<>> THEN <<>>
    ELSE LET c == Head(bs)
         IN IF c = Quote THEN <<c>> \o jsonEncode(Tail(bs), ~inString)
            ELSE IF inString
                 THEN <<IF c = NoValue THEN NoValueEscaped ELSE c>>
                      \o jsonEncode(Tail(bs), inString)
            ELSE IF IsWs(c) THEN jsonEncode(Tail(bs), inString)
            ELSE <<c>> \o jsonEncode(Tail(bs), inString)

jsonMarshal(bs) == jsonEncode(bs, FALSE)

\* How text/template prints the value a body parses to: strings without
\* their quotes, nil as NoValue.
RECURSIVE printValue(_, _)
printValue(bs, inString) ==
    IF bs = <<>> THEN <<>>
    ELSE LET c == Head(bs)
         IN IF c = Quote THEN printValue(Tail(bs), ~inString)
            ELSE IF ~inString /\ IsWs(c) THEN printValue(Tail(bs), inString)
            ELSE <<c>> \o printValue(Tail(bs), inString)

\* -------------------------------------------------------------- templates
\* A configured template string: whether text/template can parse it at all,
\* and what it is made of.  A segment is literal text, a field reference
\* into the Environment, a call of a Function Library function, or an
\* action whose execution fails.

Lit(c) == [k |-> "lit", v |-> c]
Ref(p) == [k |-> "ref", v |-> p]
Call(c) == [k |-> "call", v |-> c]
Fail == [k |-> "fail", v |-> ""]

Template(segs) == [wellFormed |-> TRUE, segs |-> segs]
Malformed == [wellFormed |-> FALSE, segs |-> <<Lit("[[")>>]
EmptyString == Template(<<>>)

\* template.New(..).Funcs(pkg.SimpleFuncMap()).Delims("[[", "]]").Parse(s)
\* returns no error; without Funcs a call of a library function is one.
Parses(t, withFuncs) ==
    /\ t.wellFormed
    /\ withFuncs \/ \A i \in 1..Len(t.segs) : t.segs[i].k # "call"

\* index .request.headers "name": request.headers is a map[string]string,
\* and a missing key of it prints as the empty string.
Header(name) == [k |-> "header", v |-> name]

\* A field reference prints the value at its path, NoValue when the path
\* is not in the Environment.
Lookup(env, p) == IF p \in DOMAIN env THEN env[p] ELSE <<NoValue>>
HeaderLookup(env, name) == IF name \in DOMAIN env THEN env[name] ELSE <<>>

\* tmpl.Execute(&buf, templateData): the error, and what reached buf (on an
\* error, the output of the segments before the failing one).
RECURSIVE Execute(_, _)
Execute(segs, env) ==
    IF segs = <<>> THEN [err |-> FALSE, buf |-> <<>>]
    ELSE LET s == Head(segs)
         IN IF s.k = "fail" THEN [err |-> TRUE, buf |-> <<>>]
            ELSE LET rest == Execute(Tail(segs), env)
                     out == IF s.k = "ref" THEN Lookup(env, s.v)
                            ELSE IF s.k = "header" THEN HeaderLookup(env, s.v)
                            ELSE <<s.v>>
                 IN [err |-> rest.err, buf |-> out \o rest.buf]

\* ------------------------------------------------------- response capture

\* The real response sink (the http.ResponseWriter the host hands in): its
\* header set and the WriteHeader and Write calls it has received.
NoHeaders == [n \in {} |-> ""]
NewSink == [header |-> NoHeaders, calls |-> <<>>]
StatusCall(code) == [op |-> "WriteHeader", code |-> code, data |-> <<>>]
BodyCall(b) == [op |-> "Write", code |-> 0, data |-> b]
SinkWriteHeader(w, code) == [w EXCEPT !.calls = Append(@, StatusCall(code))]
SinkWrite(w, b) == [w EXCEPT !.calls = Append(@, BodyCall(b))]
\* w.Header().Set(key, value); the header set is a function from names.
HeaderSet(h, key, value) == [n \in DOMAIN h \cup {key} |-> IF n = key THEN value ELSE h[n]]
SinkHeaderSet(w, key, value) == [w EXCEPT !.header = HeaderSet(@, key, value)]

\* The capture: the sink it embeds (whose Header method it inherits), its
\* buffer and its status code.
NewResponseWriter(w) == [ResponseWriter |-> w, body |-> <<>>, statusCode |-> 200]
\* A Write that also forwards the bytes to the embedded sink.
WriteThrough(rw, b) ==
    [rw EXCEPT !.body = @ \o b, !.ResponseWriter = SinkWrite(@, b)]
Write(rw, b) == [rw EXCEPT !.body = @ \o b]
\* A WriteHeader that keeps the first explicit status code.
WriteHeaderOnce(rw, statusCode) ==
    IF rw.statusCode = 200 THEN [rw EXCEPT !.statusCode = statusCode] ELSE rw
WriteHeader(rw, statusCode) == [rw EXCEPT !.statusCode = statusCode]
\* A capture that keeps the headers set through it to itself.
CaptureHeaderSetBuffered(rw, key, value) == rw
\* rw.Header().Set(key, value) on a capture: Header is the method of the
\* embedded sink, so the value goes to the sink's header set.
CaptureHeaderSet(rw, key, value) == [rw EXCEPT !.ResponseWriter = SinkHeaderSet(@, key, value)]
GetBody(rw) == rw.body
GetStatusCode(rw) == rw.statusCode

\* --------------------------------------------------------------- context

\* A *TemplateContext: nil, the empty map New installs, or the map ServeHTTP
\* builds, whose "unixtime" is that request's time.Now().UnixNano().
NilContext == [isNil |-> TRUE, unixtime |-> 0]
EmptyContext == [isNil |-> FALSE, unixtime |-> 0]
NewContext(now) == [isNil |-> FALSE, unixtime |-> now]

\* ---------------------------------------------------------- response stage

\* The placeholder without its quotes, as the pattern to clean.
BareNoValue == <<NoValue>>
QuotedNoValue == <<Quote, NoValue, Quote>>
EmptyJSONString == <<Quote, Quote>>
ResponseMaskingError == <<"response masking error">>
NoError == <<>>

\* A lookup that takes any configured code of the same class (2xx, 4xx).
SelectTemplateByClass(templateResponse, statusCode) ==
    LET near == {code \in DOMAIN templateResponse : code \div 100 = statusCode \div 100}
    IN IF near = {} THEN <<>> ELSE <<templateResponse[CHOOSE code \in near : TRUE]>>

\* templateStr, exists := bm.templateResponse[capturedResponse.statusCode],
\* as a sequence holding the template when it exists.
SelectTemplate(templateResponse, statusCode) ==
    IF statusCode \in DOMAIN templateResponse
    THEN <<templateResponse[statusCode]>>
    ELSE <<>>

\* The value a request body is exposed as: nil unless it is non-empty JSON.
RequestData(body) ==
    IF Len(body) > 0 /\ jsonValid(body) THEN printValue(body, FALSE) ELSE <<NoValue>>

\* The value the captured body is exposed as: its parse, else the raw text.
ResponseData(body) ==
    IF Len(body) > 0
    THEN IF jsonValid(body) THEN printValue(body, FALSE) ELSE body
    ELSE <<NoValue>>

ContextData(ctx) ==
    IF ctx.isNil \/ ctx.unixtime = 0
    THEN [p \in {} |-> <<>>]
    ELSE [p \in {"context.unixtime"} |-> <<ToString(ctx.unixtime)>>]

\* templateData of ModifyResponseWithContext.
ResponseTemplateData(capturedResponse, originalRequestBody, modifiedRequestBody, ctx) ==
    ContextData(ctx) @@
    [p \in {"request.api.body", "request.modified.body", "response.body"} |->
        IF p = "request.api.body" THEN RequestData(originalRequestBody)
        ELSE IF p = "request.modified.body" THEN RequestData(modifiedRequestBody)
        ELSE ResponseData(capturedResponse.body)]

\* The original response written through.
WriteOriginal(originalWriter, capturedResponse) ==
    SinkWrite(SinkWriteHeader(originalWriter, capturedResponse.statusCode),
              capturedResponse.body)

\* A rewrite that strips the quoted placeholder before it tests for JSON.
WriteRenderedStripFirst(originalWriter, statusCode, responseBytes) ==
    LET cleaned == ReplaceAll(responseBytes, QuotedNoValue, EmptyJSONString)
    IN IF ~jsonValid(cleaned)
       THEN SinkWrite(
                SinkWriteHeader(
                    SinkHeaderSet(originalWriter, "Content-Length",
                                  ToString(ByteLen(cleaned))),
                    statusCode),
                cleaned)
       ELSE SinkWrite(
                SinkWriteHeader(
                    SinkHeaderSet(
                        SinkHeaderSet(originalWriter, "Content-Length",
                                      ToString(ByteLen(cleaned))),
                        "Content-Type", "application/json"),
                    statusCode),
                cleaned)

\* A rewrite that takes Content-Length from the rendered bytes, before the
\* placeholder is cleaned.
WriteRenderedLengthFirst(originalWriter, statusCode, responseBytes) ==
    LET length == ToString(ByteLen(responseBytes))
        cleanedJSON == ReplaceAll(responseBytes, QuotedNoValue, EmptyJSONString)
    IN IF ~jsonValid(responseBytes)
       THEN SinkWrite(
                SinkWriteHeader(SinkHeaderSet(originalWriter, "Content-Length", length),
                                statusCode),
                responseBytes)
       ELSE SinkWrite(
                SinkWriteHeader(
                    SinkHeaderSet(SinkHeaderSet(originalWriter, "Content-Length", length),
                                  "Content-Type", "application/json"),
                    statusCode),
                IF ~jsonValid(cleanedJSON) THEN jsonMarshal(responseBytes) ELSE cleanedJSON)

\* The rewritten response for the bytes the template rendered.
WriteRendered(originalWriter, statusCode, responseBytes) ==
    IF ~jsonValid(responseBytes)
    THEN SinkWrite(
             SinkWriteHeader(
                 SinkHeaderSet(originalWriter, "Content-Length",
                               ToString(ByteLen(responseBytes))),
                 statusCode),
             responseBytes)
    ELSE LET cleanedJSON == ReplaceAll(responseBytes, QuotedNoValue, EmptyJSONString)
             formattedJSON == IF ~jsonValid(cleanedJSON)
                              THEN jsonMarshal(responseBytes)
                              ELSE cleanedJSON
         IN SinkWrite(
                SinkWriteHeader(
                    SinkHeaderSet(
                        SinkHeaderSet(originalWriter, "Content-Length",
                                      ToString(ByteLen(formattedJSON))),
                        "Content-Type", "application/json"),
                    statusCode),
                formattedJSON)

\* A response stage that flushes what the template rendered before it failed.
ModifyResponseWritingPartial(templateResponse, originalWriter, capturedResponse, originalRequestBody, modifiedRequestBody, ctx) ==
    LET found == SelectTemplate(templateResponse, capturedResponse.statusCode)
        done(w) == [err |-> NoError, panic |-> FALSE, w |-> w]
    IN IF found = <<>> THEN done(WriteOriginal(originalWriter, capturedResponse))
       ELSE IF ~Parses(found[1], TRUE)
       THEN [err |-> NoError, panic |-> TRUE, w |-> originalWriter]
       ELSE LET r == Execute(found[1].segs,
                             ResponseTemplateData(capturedResponse, originalRequestBody,
                                                  modifiedRequestBody, ctx))
            IN IF r.err
               THEN [err |-> ResponseMaskingError, panic |-> FALSE,
                     w |-> SinkWrite(originalWriter, r.buf)]
               ELSE done(WriteRendered(originalWriter, capturedResponse.statusCode, r.buf))

\* ModifyResponseWithContext: the error it returns (NoError for nil),
\* whether template.Must panicked, and the real sink afterwards.
ModifyResponseWithContext(templateResponse, originalWriter, capturedResponse, originalRequestBody, modifiedRequestBody, ctx) ==
    LET found == SelectTemplate(templateResponse, capturedResponse.statusCode)
        done(w) == [err |-> NoError, panic |-> FALSE, w |-> w]
    IN IF DOMAIN templateResponse = {} THEN done(WriteOriginal(originalWriter, capturedResponse))
       ELSE IF found = <<>> THEN done(WriteOriginal(originalWriter, capturedResponse))
       ELSE LET templateStr == found[1]
            IN IF ~Parses(templateStr, TRUE)
               THEN [err |-> NoError, panic |-> TRUE, w |-> originalWriter]
               ELSE LET r == Execute(templateStr.segs,
                                     ResponseTemplateData(capturedResponse, originalRequestBody,
                                                          modifiedRequestBody, ctx))
                    IN IF r.err
                       THEN [err |-> ResponseMaskingError, panic |-> FALSE, w |-> originalWriter]
                       ELSE done(WriteRendered(originalWriter, capturedResponse.statusCode, r.buf))

\* The response stage before any call of it.
RsIdle ==
    [pc |-> "idle", templateResponse |-> <<>>,
     capturedResponse |-> NewResponseWriter(NewSink), originalWriter |-> NewSink,
     result |-> [err |-> NoError, panic |-> FALSE, w |-> NewSink]]

\* ------------------------------------------------------- header transformer

\* Header names as they are written, textproto.CanonicalMIMEHeaderKey and
\* strings.ToLower of each.
WrittenNames == {"X-A", "x-a", "X-B", "Content-Length"}
CanonicalMIMEHeaderKey(name) ==
    CASE name \in {"X-A", "x-a"} -> "X-A"
      [] name = "X-B" -> "X-B"
      [] OTHER -> name
ToLower(name) ==
    CASE name \in {"X-A", "x-a"} -> "x-a"
      [] name = "X-B" -> "x-b"
      [] name = "Content-Length" -> "content-length"
      [] OTHER -> name
EqualFold(a, b) == ToLower(a) = ToLower(b)

\* http.Header: a function from the names it holds to their value lists.
HeaderValues(header, name) ==
    IF CanonicalMIMEHeaderKey(name) \in DOMAIN header
    THEN header[CanonicalMIMEHeaderKey(name)]
    ELSE <<>>
\* Header.Set(name, value) and Header.Add(name, value).
Set(header, name, value) == HeaderSet(header, CanonicalMIMEHeaderKey(name), <<value>>)
Add(header, name, value) ==
    HeaderSet(header, CanonicalMIMEHeaderKey(name), Append(HeaderValues(header, name), value))
\* Header.Del(name).
Del(header, name) ==
    [n \in DOMAIN header \ {CanonicalMIMEHeaderKey(name)} |-> header[n]]

\* strings.TrimSpace
RECURSIVE TrimLeft(_)
TrimLeft(bs) == IF bs # <<>> /\ IsWs(Head(bs)) THEN TrimLeft(Tail(bs)) ELSE bs
RECURSIVE TrimRight(_)
TrimRight(bs) ==
    IF bs # <<>> /\ IsWs(bs[Len(bs)]) THEN TrimRight(SubSeq(bs, 1, Len(bs) - 1)) ELSE bs
TrimSpace(bs) == TrimRight(TrimLeft(bs))

\* NewHeaderModifier: the templates kept, those that are not the empty string
\* and that parse (the header templates are parsed without the Function
\* Library).
NewHeaderModifier(config) ==
    [name \in {n \in DOMAIN config : config[n] # EmptyString /\ Parses(config[n], FALSE)} |->
        config[name]]

\* convertHeaders: lower-cased name to first value.
convertHeaders(headers) ==
    [lower \in {ToLower(n) : n \in {k \in DOMAIN headers : Len(headers[k]) > 0}} |->
        headers[CHOOSE n \in DOMAIN headers : Len(headers[n]) > 0 /\ ToLower(n) = lower][1]]

\* templateData of ModifyHeaders: the request's headers, method, url and
\* path, and the context.
HeaderTemplateData(req, context) ==
    convertHeaders(req.Header) @@ ContextData(context) @@
    [p \in {"request.method", "request.url", "request.path"} |->
        IF p = "request.method" THEN <<req.Method>> ELSE <<req.Path>>]

\* originalHeaders of ModifyHeaders: name to first value.
OriginalHeaders(header) ==
    [name \in {n \in DOMAIN header : Len(header[n]) > 0} |-> header[name][1]]

\* The results of the templates that executed, empty ones kept.
ModifiedHeadersKeepEmpty(templates, templateData) ==
    LET result(name) == Execute(templates[name].segs, templateData)
    IN [name \in {n \in DOMAIN templates : ~result(n).err} |-> TrimSpace(result(name).buf)]

\* modifiedHeaders of ModifyHeaders: the trimmed, non-empty results of the
\* templates that executed.
ModifiedHeaders(templates, templateData) ==
    LET result(name) == Execute(templates[name].segs, templateData)
    IN [name \in {n \in DOMAIN templates :
                     ~result(n).err /\ TrimSpace(result(n).buf) # <<>>} |->
           TrimSpace(result(name).buf)]

\* One header applied, the original names compared letter for letter.
ApplyHeaderCaseSensitive(header, originalHeaders, headerName, headerValue) ==
    IF headerName \in DOMAIN originalHeaders
    THEN Set(header, headerName, headerValue)
    ELSE Add(header, headerName, headerValue)

\* One header applied: Set when the name was in the original headers
\* (compared case-insensitively), Add otherwise.
ApplyHeader(header, originalHeaders, headerName, headerValue) ==
    IF \E origName \in DOMAIN originalHeaders : EqualFold(origName, headerName)
    THEN Set(header, headerName, headerValue)
    ELSE Add(header, headerName, headerValue)

\* The loop over modifiedHeaders, in the order the map is ranged over.
RECURSIVE ApplyHeaders(_, _, _, _)
ApplyHeaders(header, originalHeaders, modifiedHeaders, order) ==
    IF order = <<>> THEN header
    ELSE ApplyHeaders(
             ApplyHeader(header, originalHeaders, Head(order), modifiedHeaders[Head(order)]),
             originalHeaders, modifiedHeaders, Tail(order))

\* The orders a Go map with these keys can be ranged over.
Orders(keys) ==
    {order \in [1..Cardinality(keys) -> keys] :
        \A i, j \in 1..Cardinality(keys) : i # j => order[i] # order[j]}

\* ModifyHeaders: the request afterwards, for one order of the apply loop.
\* A ModifyHeaders that renders each template just before it applies it, so
\* against the headers as the entries before it left them.
RECURSIVE RenderAndApply(_, _, _, _, _)
RenderAndApply(req, originalHeaders, templates, context, order) ==
    IF order = <<>> THEN req
    ELSE LET modifiedHeaders == ModifiedHeaders(templates, HeaderTemplateData(req, context))
             header == IF Head(order) \in DOMAIN modifiedHeaders
                       THEN ApplyHeader(req.Header, originalHeaders, Head(order),
                                        modifiedHeaders[Head(order)])
                       ELSE req.Header
         IN RenderAndApply([req EXCEPT !.Header = header], originalHeaders, templates,
                           context, Tail(order))
ModifyHeadersInTurn(templates, req, context, order) ==
    IF DOMAIN templates = {} THEN req
    ELSE RenderAndApply(req, OriginalHeaders(req.Header), templates, context, order)

ModifyHeaders(templates, req, context, order) ==
    IF DOMAIN templates = {} THEN req
    ELSE [req EXCEPT !.Header =
             ApplyHeaders(req.Header, OriginalHeaders(req.Header),
                          ModifiedHeaders(templates, HeaderTemplateData(req, context)),
                          order)]

ApplyOrders(templates, req, context) ==
    IF DOMAIN templates = {} THEN {<<>>}
    ELSE Orders(DOMAIN ModifiedHeaders(templates, HeaderTemplateData(req, context)))

\* ------------------------------------------------------- header primitives

\* A value with both delimiters that does not parse (an empty action).
MalformedClosed == [wellFormed |-> FALSE, segs |-> <<Lit("[["), Lit("]]")>>]

\* containsTemplate: the text holds both "[[" and "]]", as every action does.
containsTemplate(v) ==
    \/ \E i \in 1..Len(v.segs) : v.segs[i].k # "lit"
    \/ /\ \E i \in 1..Len(v.segs) : v.segs[i] = Lit("[[")
       /\ \E i \in 1..Len(v.segs) : v.segs[i] = Lit("]]")

\* The text of a value, taken as it is written.
RECURSIVE Text(_)
Text(segs) == IF segs = <<>> THEN <<>> ELSE <<Head(segs).v>> \o Text(Tail(segs))

\* The value SetHeader and AddHeader install: the text itself, or what it
\* renders to against the request as it is now; err when it does not parse
\* or execute.
DynamicValue(req, headerValue, context) ==
    IF ~containsTemplate(headerValue)
    THEN [err |-> FALSE, value |-> Text(headerValue.segs)]
    ELSE IF ~Parses(headerValue, FALSE) THEN [err |-> TRUE, value |-> <<>>]
    ELSE LET r == Execute(headerValue.segs, HeaderTemplateData(req, context))
         IN [err |-> r.err, value |-> r.buf]

\* An AddHeader that replaces the values the header has.
AddHeaderReplacing(req, headerName, headerValue, context) ==
    LET v == DynamicValue(req, headerValue, context)
    IN IF headerValue = EmptyString \/ v.err THEN req
       ELSE [req EXCEPT !.Header = Set(@, headerName, v.value)]

\* AddHeader: the request afterwards.
AddHeader(req, headerName, headerValue, context) ==
    LET v == DynamicValue(req, headerValue, context)
    IN IF headerValue = EmptyString \/ v.err THEN req
       ELSE [req EXCEPT !.Header = Add(@, headerName, v.value)]

\* A SetHeader that renders nothing and installs the text as written.
SetHeaderVerbatim(req, headerName, headerValue, context) ==
    IF headerValue = EmptyString THEN req
    ELSE [req EXCEPT !.Header = Set(@, headerName, Text(headerValue.segs))]

\* SetHeader: the request afterwards.
SetHeader(req, headerName, headerValue, context) ==
    LET v == DynamicValue(req, headerValue, context)
    IN IF headerValue = EmptyString \/ v.err THEN req
       ELSE [req EXCEPT !.Header = Set(@, headerName, v.value)]

\* A RemoveHeader that deletes the name as spelled by the caller.
RemoveHeaderAsSpelled(req, headerName) ==
    [req EXCEPT !.Header = [n \in DOMAIN @ \ {headerName} |-> @[n]]]

\* RemoveHeader: the request afterwards.
RemoveHeader(req, headerName) == [req EXCEPT !.Header = Del(@, headerName)]

\* -------------------------------------------------------- query transformer

\* The query keys of the model in the order url.Values.Encode sorts them,
\* and the Environment path of each under request.query.
SortedKeys == <<"ask_id", "question_id">>
QueryPath(key) == IF key = "ask_id" THEN "request.query.ask_id" ELSE "request.query.question_id"
QueryRef(key) == Ref(QueryPath(key))

\* req.URL.Query(): the raw query, a sequence of <<key, value>> pairs, as
\* url.Values (key to its values in order of appearance).
\* A percent sign that no two hexadecimal digits follow: url.ParseQuery
\* fails on a pair holding one, and Query() leaves the pair out.
BadEscape == "%zz"
WellFormed(pair) == ~Contains(pair[2], BadEscape)
RECURSIVE ValuesOf(_, _)
ValuesOf(rawQuery, key) ==
    IF rawQuery = <<>> THEN <<>>
    ELSE (IF Head(rawQuery)[1] = key /\ WellFormed(Head(rawQuery))
          THEN <<Head(rawQuery)[2]>> ELSE <<>>)
         \o ValuesOf(Tail(rawQuery), key)
Query(rawQuery) ==
    [key \in {rawQuery[i][1] : i \in {j \in 1..Len(rawQuery) : WellFormed(rawQuery[j])}} |->
        ValuesOf(rawQuery, key)]

\* The values url.Values holds for a key, none when the key is absent.
QsValues(values, key) == IF key \in DOMAIN values THEN values[key] ELSE <<>>
\* The values the pairs of a raw query give a key, as written in the query.
RECURSIVE QsRawValues(_, _)
QsRawValues(rawQuery, key) ==
    IF rawQuery = <<>> THEN <<>>
    ELSE (IF Head(rawQuery)[1] = key THEN <<Head(rawQuery)[2]>> ELSE <<>>)
         \o QsRawValues(Tail(rawQuery), key)
QsRawKeys(rawQuery) == {rawQuery[i][1] : i \in 1..Len(rawQuery)}

\* values.Encode(): the pairs sorted by key, each key's values in order.
RECURSIVE EncodeKeys(_, _)
EncodeKeys(values, keys) ==
    IF keys = <<>> THEN <<>>
    ELSE (IF Head(keys) \in DOMAIN values
          THEN [i \in 1..Len(values[Head(keys)]) |-> <<Head(keys), values[Head(keys)][i]>>]
          ELSE <<>>)
         \o EncodeKeys(values, Tail(keys))
Encode(values) == EncodeKeys(values, SortedKeys)

\* How text/template prints a []string.
RECURSIVE JoinValues(_)
JoinValues(vals) ==
    IF vals = <<>> THEN <<>>
    ELSE IF Len(vals) = 1 THEN vals[1]
    ELSE vals[1] \o <<Space>> \o JoinValues(Tail(vals))

\* queryParamsToMap: a key with one value maps to it, else to the list.
queryParamsToMap(values) ==
    [p \in {QueryPath(key) : key \in DOMAIN values} |->
        LET vals == values[CHOOSE key \in DOMAIN values : QueryPath(key) = p]
        IN IF Len(vals) = 1 THEN vals[1] ELSE <<"[">> \o JoinValues(vals) \o <<"]">>]

\* headerToMap: the same for the headers, under their names as stored.
headerToMap(headers) ==
    [n \in DOMAIN headers |->
        IF Len(headers[n]) = 1 THEN headers[n][1]
        ELSE <<"[">> \o JoinValues(headers[n]) \o <<"]">>]

\* templateData of ModifyQueryWithContext.
QueryTemplateData(req, values, ctx) ==
    queryParamsToMap(values) @@ headerToMap(req.Header) @@ ContextData(ctx) @@
    [p \in {"request.method", "request.path"} |->
        IF p = "request.method" THEN <<req.Method>> ELSE <<req.Path>>]

\* values.Has, values.Set and values.Add.
Has(values, key) == key \in DOMAIN values
QuerySet(values, key, value) == HeaderSet(values, key, <<value>>)
QueryAdd(values, key, value) ==
    HeaderSet(values, key, Append(IF key \in DOMAIN values THEN values[key] ELSE <<>>, value))

\* One transform of the loop of ModifyQueryWithContext: the template is
\* parsed and executed, the placeholder is removed from the result, and a
\* non-empty result is installed.
Transform(values, targetParam, templateStr, templateData) ==
    IF ~Parses(templateStr, TRUE) THEN values
    ELSE LET r == Execute(templateStr.segs, templateData)
             result == ReplaceAll(r.buf, <<NoValue>>, <<>>)
         IN IF r.err \/ result = <<>> THEN values
            ELSE IF Has(values, targetParam)
                 THEN QuerySet(values, targetParam, result)
                 ELSE QueryAdd(values, targetParam, result)

\* A loop that ends at the first transform whose template does not parse
\* or fails to execute.
RECURSIVE TransformUntilError(_, _, _, _)
TransformUntilError(values, transforms, templateData, keys) ==
    IF keys = <<>> THEN values
    ELSE IF Head(keys) \notin DOMAIN transforms
    THEN TransformUntilError(values, transforms, templateData, Tail(keys))
    ELSE IF \/ ~Parses(transforms[Head(keys)], TRUE)
            \/ Execute(transforms[Head(keys)].segs, templateData).err
    THEN values
    ELSE TransformUntilError(
             Transform(values, Head(keys), transforms[Head(keys)], templateData),
             transforms, templateData, Tail(keys))

\* The loop over qm.transforms, one transform per key.
RECURSIVE TransformAll(_, _, _, _)
TransformAll(values, transforms, templateData, keys) ==
    IF keys = <<>> THEN values
    ELSE TransformAll(
             IF Head(keys) \in DOMAIN transforms
             THEN Transform(values, Head(keys), transforms[Head(keys)], templateData)
             ELSE values,
             transforms, templateData, Tail(keys))

\* ModifyQueryWithContext: the request afterwards.
ModifyQueryWithContext(transforms, req, ctx) ==
    IF DOMAIN transforms = {} THEN req
    ELSE LET values == Query(req.RawQuery)
         IN [req EXCEPT !.RawQuery =
                Encode(TransformAll(values, transforms,
                                    QueryTemplateData(req, values, ctx), SortedKeys))]

\* ------------------------------------------------------ request-body stage

ReadError == <<"failed to read request body">>
ParseError == <<"failed to parse request JSON">>
ExecuteError == <<"failed to execute request template">>
\* strconv.Itoa
Itoa(n) == <<ToString(n)>>

\* A request body: nil, or a stream that yields its data or fails to.
NilBody == [isNil |-> TRUE, failing |-> FALSE, data |-> <<>>]
Body(data) == [isNil |-> FALSE, failing |-> FALSE, data |-> data]
FailingBody == [isNil |-> FALSE, failing |-> TRUE, data |-> <<>>]

\* templateData of ModifyRequestBodyWithContext.
RequestTemplateData(body, ctx) ==
    ContextData(ctx) @@ [p \in {"request.api.body"} |-> RequestData(body)]

\* A request-body stage that treats a body that is not JSON as no data.
ModifyRequestBodyLenient(templateRequest, req, ctx) ==
    LET return(body, cleanedBody, err, panic, r) ==
            [body |-> body, cleanedBody |-> cleanedBody, err |-> err, panic |-> panic, req |-> r]
        drained == [req EXCEPT !.Body = Body(<<>>)]
    IN IF templateRequest = EmptyString \/ req.Body.isNil
       THEN return(<<>>, <<>>, NoError, FALSE, req)
       ELSE IF req.Body.failing THEN return(<<>>, <<>>, ReadError, FALSE, req)
       ELSE IF ~Parses(templateRequest, TRUE)
       THEN return(<<>>, <<>>, NoError, TRUE, drained)
       ELSE LET body == req.Body.data
                r == Execute(templateRequest.segs, RequestTemplateData(body, ctx))
                cleanedBody == ReplaceAll(r.buf, QuotedNoValue, EmptyJSONString)
            IN IF r.err THEN return(<<>>, <<>>, ExecuteError, FALSE, drained)
               ELSE return(body, cleanedBody, NoError, FALSE,
                           [req EXCEPT !.Body = Body(cleanedBody),
                                       !.ContentLength = ByteLen(cleanedBody),
                                       !.Header = Set(@, "Content-Length",
                                                      Itoa(ByteLen(cleanedBody)))])

\* A request-body stage that takes both lengths from the rendered bytes,
\* before the placeholder is cleaned.
ModifyRequestBodyLengthFirst(templateRequest, req, ctx) ==
    LET return(body, cleanedBody, err, panic, r) ==
            [body |-> body, cleanedBody |-> cleanedBody, err |-> err, panic |-> panic, req |-> r]
        drained == [req EXCEPT !.Body = Body(<<>>)]
    IN IF templateRequest = EmptyString \/ req.Body.isNil
       THEN return(<<>>, <<>>, NoError, FALSE, req)
       ELSE IF req.Body.failing THEN return(<<>>, <<>>, ReadError, FALSE, req)
       ELSE IF Len(req.Body.data) > 0 /\ ~jsonValid(req.Body.data)
       THEN return(<<>>, <<>>, ParseError, FALSE, drained)
       ELSE IF ~Parses(templateRequest, TRUE)
       THEN return(<<>>, <<>>, NoError, TRUE, drained)
       ELSE LET body == req.Body.data
                r == Execute(templateRequest.segs, RequestTemplateData(body, ctx))
                cleanedBody == ReplaceAll(r.buf, QuotedNoValue, EmptyJSONString)
            IN IF r.err THEN return(<<>>, <<>>, ExecuteError, FALSE, drained)
               ELSE return(body, cleanedBody, NoError, FALSE,
                           [req EXCEPT !.Body = Body(cleanedBody),
                                       !.ContentLength = ByteLen(r.buf),
                                       !.Header = Set(@, "Content-Length",
                                                      Itoa(ByteLen(r.buf)))])

\* A request-body stage that reads a request without a body as one with an
\* empty body.
ModifyRequestBodyNilAsEmpty(templateRequest, req, ctx) ==
    LET return(body, cleanedBody, err, panic, r) ==
            [body |-> body, cleanedBody |-> cleanedBody, err |-> err, panic |-> panic, req |-> r]
        drained == [req EXCEPT !.Body = Body(<<>>)]
    IN IF templateRequest = EmptyString
       THEN return(<<>>, <<>>, NoError, FALSE, req)
       ELSE IF req.Body.failing THEN return(<<>>, <<>>, ReadError, FALSE, req)
       ELSE IF Len(req.Body.data) > 0 /\ ~jsonValid(req.Body.data)
       THEN return(<<>>, <<>>, ParseError, FALSE, drained)
       ELSE IF ~Parses(templateRequest, TRUE)
       THEN return(<<>>, <<>>, NoError, TRUE, drained)
       ELSE LET body == req.Body.data
                r == Execute(templateRequest.segs, RequestTemplateData(body, ctx))
                cleanedBody == ReplaceAll(r.buf, QuotedNoValue, EmptyJSONString)
            IN IF r.err THEN return(<<>>, <<>>, ExecuteError, FALSE, drained)
               ELSE return(body, cleanedBody, NoError, FALSE,
                           [req EXCEPT !.Body = Body(cleanedBody),
                                       !.ContentLength = ByteLen(cleanedBody),
                                       !.Header = Set(@, "Content-Length",
                                                      Itoa(ByteLen(cleanedBody)))])

\* ModifyRequestBodyWithContext: the original bytes, the modified bytes, the
\* error (NoError for nil), whether template.Must panicked, and the request
\* afterwards.
ModifyRequestBodyWithContext(templateRequest, req, ctx) ==
    LET return(body, cleanedBody, err, panic, r) ==
            [body |-> body, cleanedBody |-> cleanedBody, err |-> err, panic |-> panic, req |-> r]
        drained == [req EXCEPT !.Body = Body(<<>>)]
    IN IF templateRequest = EmptyString \/ req.Body.isNil
       THEN return(<<>>, <<>>, NoError, FALSE, req)
       ELSE IF req.Body.failing THEN return(<<>>, <<>>, ReadError, FALSE, req)
       ELSE LET body == req.Body.data
            IN IF Len(body) > 0 /\ ~jsonValid(body)
               THEN return(<<>>, <<>>, ParseError, FALSE, drained)
               ELSE IF ~Parses(templateRequest, TRUE)
               THEN return(<<>>, <<>>, NoError, TRUE, drained)
               ELSE LET r == Execute(templateRequest.segs, RequestTemplateData(body, ctx))
                        cleanedBody == ReplaceAll(r.buf, QuotedNoValue, EmptyJSONString)
                    IN IF r.err THEN return(<<>>, <<>>, ExecuteError, FALSE, drained)
                       ELSE return(body, cleanedBody, NoError, FALSE,
                                   [req EXCEPT
                                       !.Body = Body(cleanedBody),
                                       !.ContentLength = ByteLen(cleanedBody),
                                       !.Header = Set(@, "Content-Length",
                                                      Itoa(ByteLen(cleanedBody)))])

\* ------------------------------------------------------------ orchestrator

\* http.Error(w, error, code).
HttpError(w, error, code) ==
    SinkWrite(
        SinkWriteHeader(
            SinkHeaderSet(
                SinkHeaderSet(w, "Content-Type", "text/plain; charset=utf-8"),
                "X-Content-Type-Options", "nosniff"),
            code),
        error)

\* http.Error as net/http has it from Go 1.23 on: Content-Length is deleted
\* before the error headers are set.
HttpErrorResetting(w, error, code) ==
    HttpError([w EXCEPT !.header = [n \in DOMAIN @ \ {"Content-Length"} |-> @[n]]],
              error, code)

StatusBadRequest == 400
StatusInternalServerError == 500
RequestMaskingError(err) == <<"Request masking error: ">> \o err

\* A Config; ModifierQuery is a sequence that is empty for nil.
Config(request, response, query, header) ==
    [ModifierRequest |-> request, ModifierResponse |-> response,
     ModifierQuery |-> query, ModifierHeader |-> header]
NoTemplates == [code \in {} |-> EmptyString]
QueryConfig(transform) == <<[Transform |-> transform]>>
CreateConfig == Config(EmptyString, NoTemplates, <<>>, NoHeaders)

NewBodyModifier(templateRequest, templateResponse) ==
    [templateRequest |-> templateRequest, templateResponse |-> templateResponse]
NewQueryModifier(transforms) == [transforms |-> transforms]

\* New: the instance; a transformer that is not configured is nil, here
\* the empty sequence.
New(config) ==
    [bodyModifier |-> NewBodyModifier(config.ModifierRequest, config.ModifierResponse),
     queryModifier |->
        IF config.ModifierQuery # <<>> /\ DOMAIN config.ModifierQuery[1].Transform # {}
        THEN <<NewQueryModifier(config.ModifierQuery[1].Transform)>>
        ELSE <<>>,
     headerModifier |->
        IF DOMAIN config.ModifierHeader # {}
        THEN <<NewHeaderModifier(config.ModifierHeader)>>
        ELSE <<>>,
     context |-> EmptyContext]

\* The requests one instance serves at the same time.
Requests == {1, 2}

\* An *http.Request as far as the plugin reads and writes it.
Request(header, rawQuery, body) ==
    [Header |-> header, Method |-> "POST", Path |-> "/", RawQuery |-> rawQuery,
     Body |-> body, ContentLength |-> ByteLen(body.data)]

\* A ServeHTTP call that has not begun.  Besides req, rw and the locals of
\* ServeHTTP and handleResponseMasking it records the request as received,
\* the Context made for it, the Contexts handed to its stages, how often
\* next.ServeHTTP was called, the calls the handler made, the error of
\* the response stage, the stages begun in order and the templates handed
\* to Parse while it was served.
NotServing ==
    [pc |-> "idle",
     req |-> Request(NoHeaders, <<>>, NilBody),
     rw |-> NewSink,
     captureWriter |-> NewResponseWriter(NewSink),
     originalRequestBody |-> <<>>,
     modifiedRequestBody |-> <<>>,
     received |-> Request(NoHeaders, <<>>, NilBody),
     own |-> NilContext,
     seen |-> {},
     served |-> 0,
     handled |-> <<>>,
     err |-> NoError,
     stages |-> <<>>,
     parsed |-> <<>>]

\* The capture of CsIdle and the values the instance variables have while
\* a part is exercised by itself.
CsIdle == [pc |-> "idle", rw |-> NewResponseWriter(NewSink), history |-> <<>>]
\* The requests of QsIdle and PsIdle, before the query transformer and the
\* header primitives are exercised by themselves.
QsIdle == [pc |-> "idle", transforms |-> NoHeaders,
           req |-> Request(NoHeaders, <<>>, NilBody), before |-> <<>>]
PsIdle == [pc |-> "idle", req |-> Request(NoHeaders, <<>>, NilBody),
           first |-> NoHeaders, prev |-> NoHeaders, history |-> <<>>]
\* handleResponseMasking before it is exercised by itself.
MsIdle == [pc |-> "idle", templateResponse |-> NoTemplates, rw |-> NewSink,
           captureWriter |-> NewResponseWriter(NewSink), handled |-> <<>>, err |-> NoError]
PluginIdle ==
    /\ plugin = New(CreateConfig)
    /\ clock = 0
    /\ serving = [r \in Requests |-> NotServing]

\* ------------------------------------- the header transformer, by itself
\* ModifyHeaders applied to every header configuration and request header
\* set within the bounds.

HeaderTemplates ==
    { Template(<<Lit("c")>>),
      Template(<<Lit("d")>>),
      Template(<<Lit(Space), Lit("c"), Lit(Space)>>),
      Template(<<Lit(Space)>>),
      Template(<<Header("x-a")>>),
      Template(<<Header("x-b"), Lit(Space)>>),
      Template(<<Lit("c"), Fail>>),
      EmptyString,
      Malformed }
ConfigNames == {"X-A", "x-a", "X-B"}
HeaderConfigs ==
    UNION {[names -> HeaderTemplates] : names \in SUBSET ConfigNames}
RequestHeaders ==
    {[name \in names |-> IF name = "X-A" THEN a ELSE <<<<"b">>>>] :
        names \in SUBSET {"X-A", "X-B"}, a \in {<<<<"a">>>>, <<<<"a">>, <<"b">>>>}}
HsRequest(header) == [Header |-> header, Method |-> "GET", Path |-> "/"]
HsIdle == [pc |-> "idle", config |-> NoHeaders, req |-> HsRequest(NoHeaders),
           before |-> NoHeaders]

HsInit ==
    /\ rs = RsIdle
    /\ qs = QsIdle
    /\ ps = PsIdle
    /\ cs = CsIdle
    /\ ms = MsIdle
    /\ PluginIdle
    /\ hs \in [pc : {"ready"}, config : HeaderConfigs,
               req : {HsRequest(h) : h \in RequestHeaders}, before : {NoHeaders}]

HsModifyHeaders ==
    /\ hs.pc = "ready"
    /\ LET templates == NewHeaderModifier(hs.config)
       IN \E order \in ApplyOrders(templates, hs.req, NewContext(1)) :
              hs' = [hs EXCEPT !.pc = "modified",
                               !.before = hs.req.Header,
                               !.req = ModifyHeaders(templates, hs.req, NewContext(1), order)]
    /\ UNCHANGED <<ms, rs, cs, qs, ps, plugin, clock, serving>>

HsNext == HsModifyHeaders

SpecHeader == HsInit /\ [][HsNext]_vars

HsModified == hs.pc = "modified"
HsBefore == [hs.req EXCEPT !.Header = hs.before]
HsTemplates == NewHeaderModifier(hs.config)
\* What each kept template renders to against the request before the call.
HsResult(name) == Execute(HsTemplates[name].segs, HeaderTemplateData(HsBefore, NewContext(1)))
HsRendered(name) == TrimSpace(HsResult(name).buf)
\* The entries whose template renders a non-empty value, and an empty one.
HsNonEmpty == {n \in DOMAIN HsTemplates : ~HsResult(n).err /\ HsRendered(n) # <<>>}
HsEmpty == {n \in DOMAIN HsTemplates : ~HsResult(n).err /\ HsRendered(n) = <<>>}
HsPresentBefore(name) == HeaderValues(hs.before, name) # <<>>
HsSameHeader(name) == {m \in HsNonEmpty : EqualFold(m, name)}
InSeq(x, q) == \E i \in 1..Len(q) : q[i] = x

\* C9 as stated: every configured header whose template renders a non-empty
\* value ends, when the request carried that header, with exactly one value,
\* the rendered text, and otherwise has the rendered text appended.
C9_EveryEntryReplacesOrAppends ==
    HsModified =>
        \A name \in HsNonEmpty :
            IF HsPresentBefore(name)
            THEN HeaderValues(hs.req.Header, name) = <<HsRendered(name)>>
            ELSE InSeq(HsRendered(name), HeaderValues(hs.req.Header, name))

\* C9 as amended: a header the request carried ends with exactly one value,
\* the rendered text of one of the configured entries naming that header
\* (case-insensitively), which is the entry's own when no other entry names
\* the same header; a header the request did not carry ends with the
\* rendered text of every entry naming it, and nothing else.
C9_ReplacesOrAppendsPerHeader ==
    HsModified =>
        \A name \in HsNonEmpty :
            LET after == HeaderValues(hs.req.Header, name)
            IN IF HsPresentBefore(name)
               THEN /\ \E m \in HsSameHeader(name) : after = <<HsRendered(m)>>
                    /\ HsSameHeader(name) = {name} => after = <<HsRendered(name)>>
               ELSE /\ Len(after) = Cardinality(HsSameHeader(name))
                    /\ \A m \in HsSameHeader(name) : InSeq(HsRendered(m), after)

C9_Witness ==
    /\ HsModified
    /\ "x-a" \in HsNonEmpty
    /\ HsSameHeader("x-a") = {"x-a"}
    /\ Len(HeaderValues(hs.before, "X-A")) = 2
    /\ HeaderValues(hs.req.Header, "X-A") = <<HsRendered("x-a")>>
    /\ "X-B" \in HsNonEmpty
    /\ ~HsPresentBefore("X-B")
    /\ HeaderValues(hs.req.Header, "X-B") = <<HsRendered("X-B")>>

\* C11: every value ModifyHeaders leaves in a header that configured entries
\* name is either a value the request had or the rendering of one of those
\* entries against the headers the request had before the call; the value
\* written last for a header named by one entry only is that entry's
\* rendering against the original headers, also when the template reads the
\* header itself or one a sibling entry writes.
C11_TemplatesSeeOriginalHeaders ==
    HsModified =>
        \A name \in HsNonEmpty :
            LET after == HeaderValues(hs.req.Header, name)
            IN /\ \A i \in 1..Len(after) :
                      \/ InSeq(after[i], HeaderValues(hs.before, name))
                      \/ \E other \in HsSameHeader(name) : after[i] = HsRendered(other)
               /\ HsSameHeader(name) = {name} =>
                      after # <<>> /\ after[Len(after)] = HsRendered(name)

\* X-B is rendered from X-A, which a sibling entry overwrites with another
\* value; X-B carries the value X-A had before the call.
C11_Witness ==
    /\ HsModified
    /\ DOMAIN hs.config = {"X-A", "X-B"}
    /\ hs.config["X-A"] = Template(<<Lit("c")>>)
    /\ hs.config["X-B"] = Template(<<Header("x-a")>>)
    /\ HeaderValues(hs.before, "X-A") = <<<<"a">>>>
    /\ HeaderValues(hs.before, "X-B") = <<>>
    /\ HeaderValues(hs.req.Header, "X-A") = <<<<"c">>>>
    /\ HeaderValues(hs.req.Header, "X-B") = <<<<"a">>>>

\* C22: the headers ModifyHeaders leaves are the same for every order in
\* which the map of rendered headers can be ranged over.
C22_AnyOrderSameHeaders ==
    HsModified =>
        \A order \in ApplyOrders(HsTemplates, HsBefore, NewContext(1)) :
            ModifyHeaders(HsTemplates, HsBefore, NewContext(1), order).Header = hs.req.Header

\* The same for the configurations in which no two entries that render a
\* value name the same header: for these the order does not matter.
HsAnyOrderSameHeadersUnlessSameHeader ==
    HsModified /\ (\A name \in HsNonEmpty : HsSameHeader(name) = {name}) =>
        \A order \in ApplyOrders(HsTemplates, HsBefore, NewContext(1)) :
            ModifyHeaders(HsTemplates, HsBefore, NewContext(1), order).Header = hs.req.Header

\* C10 as stated: a configured header whose template renders the empty
\* string (after trimming) is not carried by the request afterwards.
C10_EmptyResultMeansNoHeader ==
    HsModified => \A name \in HsEmpty : HeaderValues(hs.req.Header, name) = <<>>

\* C10 as amended: a configured header whose template renders the empty
\* string (after trimming) has no value written for it: unless another
\* configured entry naming the same header renders a value, the header keeps
\* exactly the values it had before the call, so a request that did not
\* carry it still does not.
C10_EmptyResultWritesNothing ==
    HsModified =>
        \A name \in HsEmpty :
            HsSameHeader(name) = {} =>
                /\ HeaderValues(hs.req.Header, name) = HeaderValues(hs.before, name)
                /\ ~HsPresentBefore(name) =>
                       CanonicalMIMEHeaderKey(name) \notin DOMAIN hs.req.Header

C10_Witness ==
    /\ HsModified
    /\ "X-B" \in HsEmpty
    /\ ~HsPresentBefore("X-B")
    /\ "X-B" \notin DOMAIN hs.req.Header
    /\ "X-A" \in HsEmpty
    /\ HsSameHeader("X-A") = {}
    /\ HeaderValues(hs.req.Header, "X-A") = <<<<"a">>, <<"b">>>>

\* ------------------------------------------- the response stage, by itself
\* ModifyResponseWithContext applied to every configuration, captured
\* response and real sink within the bounds.

MaxTmplLen == 4

Statuses == {200, 201, 404}
TemplateSymbols == {Quote, Space, "1", "a"}
Segments == {Lit(c) : c \in TemplateSymbols} \cup {Ref("response.body"), Ref("response.status"), Fail}
ResponseTemplates == {Template(segs) : segs \in SeqsUpTo(Segments, MaxTmplLen)} \cup {Malformed}
NotFoundTemplate == Template(<<Lit("a"), Ref("response.body")>>)
TemplateResponses ==
    {[code \in keys |-> IF code = 200 THEN t ELSE NotFoundTemplate] :
        keys \in SUBSET {200, 404}, t \in ResponseTemplates}
CapturedBodies == {<<>>, <<"1">>, <<"a">>}
SinkHeaders == {NoHeaders, [n \in {"Content-Type"} |-> "text/plain"]}

RsInit ==
    /\ hs = HsIdle
    /\ qs = QsIdle
    /\ ps = PsIdle
    /\ cs = CsIdle
    /\ ms = MsIdle
    /\ PluginIdle
    /\ rs \in {[pc |-> "call",
               templateResponse |-> t,
               capturedResponse |-> WriteHeader(Write(NewResponseWriter(w), b), code),
               originalWriter |-> w,
               result |-> [err |-> NoError, panic |-> FALSE, w |-> NewSink]] :
                 t \in TemplateResponses, b \in CapturedBodies, code \in Statuses,
                 w \in [header : SinkHeaders, calls : {<<>>}]}

RsModifyResponse ==
    /\ rs.pc = "call"
    /\ UNCHANGED <<ms, hs, cs, qs, ps, plugin, clock, serving>>
    /\ rs' = [rs EXCEPT !.pc = "return",
                        !.result = ModifyResponseWithContext(
                                       rs.templateResponse, rs.originalWriter,
                                       rs.capturedResponse, <<>>, <<>>, NilContext)]

RsNext == RsModifyResponse

SpecResponse == RsInit /\ [][RsNext]_vars

\* What a sink has been sent: the body bytes and the status codes, in order.
RECURSIVE BodyWritten(_)
BodyWritten(calls) ==
    IF calls = <<>> THEN <<>>
    ELSE (IF Head(calls).op = "Write" THEN Head(calls).data ELSE <<>>) \o BodyWritten(Tail(calls))

RECURSIVE StatusWritten(_)
StatusWritten(calls) ==
    IF calls = <<>> THEN <<>>
    ELSE (IF Head(calls).op = "WriteHeader" THEN <<Head(calls).code>> ELSE <<>>)
         \o StatusWritten(Tail(calls))

\* JSON text without its insignificant whitespace.
RECURSIVE Compact(_, _)
Compact(bs, inString) ==
    IF bs = <<>> THEN <<>>
    ELSE IF Head(bs) = Quote THEN <<Quote>> \o Compact(Tail(bs), ~inString)
    ELSE IF ~inString /\ IsWs(Head(bs)) THEN Compact(Tail(bs), inString)
    ELSE <<Head(bs)>> \o Compact(Tail(bs), inString)

RsReturned == rs.pc = "return"
RsStatus == rs.capturedResponse.statusCode
RsMatched == RsStatus \in DOMAIN rs.templateResponse
RsExecuted ==
    Execute(rs.templateResponse[RsStatus].segs,
            ResponseTemplateData(rs.capturedResponse, <<>>, <<>>, NilContext))
\* The status code has a template, which compiles and executes.
RsRenders ==
    /\ RsMatched
    /\ Parses(rs.templateResponse[RsStatus], TRUE)
    /\ ~RsExecuted.err
RsRendered == RsExecuted.buf
RsStripped == ReplaceAll(RsRendered, QuotedNoValue, EmptyJSONString)
RsHeader(name) ==
    IF name \in DOMAIN rs.result.w.header THEN rs.result.w.header[name] ELSE ""
RsHeaderBefore(name) ==
    IF name \in DOMAIN rs.originalWriter.header THEN rs.originalWriter.header[name] ELSE ""

\* C1: a captured response whose status code has no entry in the template
\* map (the empty map included) reaches the real sink as exactly its status
\* code and exactly its body, with no error; a status code that has an entry
\* is answered from that entry's template and no other.
C1_PassThroughUnlessExactMatch ==
    RsReturned =>
        /\ ~RsMatched =>
              /\ rs.result.w.calls = <<StatusCall(RsStatus), BodyCall(rs.capturedResponse.body)>>
              /\ rs.result.w.header = rs.originalWriter.header
              /\ rs.result.err = NoError
              /\ ~rs.result.panic
        /\ RsRenders =>
              rs.result.w.calls = WriteRendered(NewSink, RsStatus, RsRendered).calls

C1_Witness ==
    /\ RsReturned
    /\ ~RsMatched
    /\ 200 \in DOMAIN rs.templateResponse
    /\ RsStatus = 201
    /\ rs.capturedResponse.body # <<>>

\* C5: when the matched template renders valid JSON, the client receives
\* that JSON minified (no whitespace outside strings), Content-Type is
\* application/json and Content-Length is the minified length.
C5_ValidJSONIsMinified ==
    RsReturned /\ RsRenders /\ jsonValid(RsRendered) =>
        /\ BodyWritten(rs.result.w.calls) = Compact(RsStripped, FALSE)
        /\ RsHeader("Content-Type") = "application/json"
        /\ RsHeader("Content-Length") = ToString(ByteLen(Compact(RsStripped, FALSE)))

C23_LengthMatchesBodyAndTypeFollowsJSON ==
    RsReturned /\ RsRenders =>
        /\ RsHeader("Content-Length") = ToString(ByteLen(BodyWritten(rs.result.w.calls)))
        /\ IF jsonValid(RsRendered)
           THEN RsHeader("Content-Type") = "application/json"
           ELSE RsHeader("Content-Type") = RsHeaderBefore("Content-Type")
        /\ \A name \in (DOMAIN rs.result.w.header \cup DOMAIN rs.originalWriter.header)
                             \ {"Content-Length", "Content-Type"} :
               RsHeader(name) = RsHeaderBefore(name)

\* A rendering that is valid JSON and that cleaning made shorter: the
\* length is that of the cleaned bytes, which were written.
C23_Witness ==
    /\ RsReturned
    /\ RsRenders
    /\ jsonValid(RsRendered)
    /\ RsStripped # RsRendered
    /\ BodyWritten(rs.result.w.calls) = RsStripped
    /\ RsHeader("Content-Length") = ToString(ByteLen(RsStripped))
    /\ RsHeaderBefore("Content-Type") = "text/plain"
    /\ RsHeader("Content-Type") = "application/json"

\* The Environment of the call, and the paths a response template is said
\* to find in it besides the bodies.
RsEnvironment == ResponseTemplateData(rs.capturedResponse, <<>>, <<>>, NilContext)
RequestAndResponsePaths ==
    {"request.method", "request.path", "request.headers", "response.status",
     "response.headers"}

\* C27: the Environment of a response template holds the two request
\* bodies and the response body and, besides them, the request method, path
\* and headers, response.status and response.headers; response.status is
\* the captured status code, so a template that is a reference to it
\* renders that code.
C27_ResponseEnvironmentIsComplete ==
    RsReturned /\ RsMatched =>
        /\ {"request.api.body", "request.modified.body", "response.body"}
               \subseteq DOMAIN RsEnvironment
        /\ RequestAndResponsePaths \subseteq DOMAIN RsEnvironment
        /\ Lookup(RsEnvironment, "response.status") = <<ToString(RsStatus)>>
        /\ rs.templateResponse[RsStatus] = Template(<<Ref("response.status")>>)
               => BodyWritten(rs.result.w.calls) = <<ToString(RsStatus)>>

\* --------------------------------------------- the Response Capture, by itself

MaxCalls == 3
CaptureStatuses == {200, 404, 500}
CaptureChunks == {<<>>, <<"1">>, <<"a", Space>>}

CsInit ==
    /\ rs = RsIdle
    /\ hs = HsIdle
    /\ qs = QsIdle
    /\ ps = PsIdle
    /\ ms = MsIdle
    /\ PluginIdle
    /\ cs = [pc |-> "open", rw |-> NewResponseWriter(NewSink), history |-> <<>>]

CsWriteHeader ==
    /\ cs.pc = "open"
    /\ Len(cs.history) < MaxCalls
    /\ \E statusCode \in CaptureStatuses :
          cs' = [cs EXCEPT !.rw = WriteHeader(@, statusCode),
                           !.history = Append(@, StatusCall(statusCode))]
    /\ UNCHANGED <<ms, rs, hs, qs, ps, plugin, clock, serving>>

CsWrite ==
    /\ cs.pc = "open"
    /\ Len(cs.history) < MaxCalls
    /\ \E b \in CaptureChunks :
          cs' = [cs EXCEPT !.rw = Write(@, b),
                           !.history = Append(@, BodyCall(b))]
    /\ UNCHANGED <<ms, rs, hs, qs, ps, plugin, clock, serving>>

CsNext == CsWriteHeader \/ CsWrite

SpecCapture == CsInit /\ [][CsNext]_vars

\* C4: whatever calls were made on a capture, GetStatusCode is the argument
\* of the last WriteHeader (200 when there was none) and GetBody is the
\* written slices joined in the order of the calls.
C4_CaptureKeepsLastStatusAndAllBytes ==
    cs.pc = "open" =>
        /\ GetStatusCode(cs.rw) =
              (IF StatusWritten(cs.history) = <<>> THEN 200
               ELSE StatusWritten(cs.history)[Len(StatusWritten(cs.history))])
        /\ GetBody(cs.rw) = BodyWritten(cs.history)

\* Two different status codes were set and two non-empty slices written.
C4_Witness ==
    /\ cs.pc = "open"
    /\ Len(cs.history) = MaxCalls
    /\ Len(StatusWritten(cs.history)) >= 2
    /\ StatusWritten(cs.history)[1] # StatusWritten(cs.history)[2]
    /\ StatusWritten(cs.history)[1] # 200
    /\ cs.history[1].op = "Write"
    /\ GetBody(cs.rw) # <<>>

\* ------------------------------------------------------------- the plugin

MaxHandlerCalls == 2
HandlerStatuses == {404}
HandlerChunks == {<<"1">>}

UnixTime == Ref("context.unixtime")
ApiBody == Ref("request.api.body")
Configs ==
    { Config(Template(<<UnixTime>>),
             200 :> Template(<<UnixTime>>),
             QueryConfig("question_id" :> Template(<<QueryRef("ask_id"), UnixTime>>)),
             "X-B" :> Template(<<UnixTime>>)),
      Config(Template(<<Ref("request.api.body")>>), NoTemplates, <<>>, NoHeaders),
      Config(Template(<<Lit("1"), Fail>>),
             200 :> Template(<<Ref("response.body")>>), <<>>, NoHeaders),
      Config(EmptyString,
             200 :> Template(<<Lit("1"), Fail>>) @@ 404 :> Template(<<Lit("a")>>),
             <<>>, NoHeaders),
      Config(Malformed, NoTemplates, QueryConfig(NoHeaders), NoHeaders),
      Config(EmptyString, 200 :> Malformed, <<>>, NoHeaders),
      Config(Template(<<Lit(Quote), ApiBody, Lit(Quote), Lit(Space), ApiBody, Lit(Space),
                        Lit(Quote), Lit("a"), ApiBody, Lit(Quote)>>),
             200 :> Template(<<Lit(Quote), Lit("a"), Ref("response.body"), Lit(Quote)>>)
                 @@ 404 :> Template(<<Lit(Quote), Ref("response.body"), Lit(Quote)>>),
             <<>>, NoHeaders),
      Config(EmptyString, NoTemplates,
             QueryConfig("ask_id" :> Malformed
                         @@ "question_id" :> Template(<<Lit("a"), QueryRef("ask_id")>>)),
             "X-A" :> Template(<<Lit("c"), Fail>>) @@ "X-B" :> Template(<<Header("x-a")>>)),
      Config(EmptyString, NoTemplates,
             QueryConfig("ask_id" :> Template(<<Lit("c"), Fail>>)
                         @@ "question_id" :> Template(<<Lit("a"), QueryRef("ask_id")>>)),
             "X-A" :> Malformed @@ "X-B" :> Template(<<Header("x-a")>>)),
      Config(Template(<<Call("unixEpoch")>>),
             200 :> Template(<<Call("unixEpoch")>>) @@ 404 :> Template(<<Call("unixEpoch")>>),
             QueryConfig("question_id" :> Template(<<Call("unixEpoch")>>)),
             "X-B" :> Template(<<Call("unixEpoch")>>)) }

Received ==
    { Request("X-A" :> <<<<"a">>>>, <<<<"ask_id", <<"1">>>>>>, NilBody),
      Request(NoHeaders, <<>>, Body(<<"1">>)),
      Request(NoHeaders, <<>>, Body(<<"a">>)),
      Request(NoHeaders, <<>>, Body(<<>>)),
      Request(NoHeaders, <<>>, FailingBody) }

\* A ServeHTTP that runs the query stage before the header stage.
StageAfterQueryFirst(stage) ==
    CASE stage = "entry" -> "query"
      [] stage = "query" -> "header"
      [] stage = "header" -> "body"

\* The position ServeHTTP moves to from its entry and its first two stages.
StageAfter(stage) ==
    CASE stage = "entry" -> "header"
      [] stage = "header" -> "query"
      [] stage = "query" -> "body"

\* The templates the query stage hands to Parse: one per transform, in the
\* order of SortedKeys here.
RECURSIVE QueryTemplatesParsed(_, _)
QueryTemplatesParsed(transforms, keys) ==
    IF keys = <<>> THEN <<>>
    ELSE (IF Head(keys) \in DOMAIN transforms THEN <<transforms[Head(keys)]>> ELSE <<>>)
         \o QueryTemplatesParsed(transforms, Tail(keys))

\* The template the request-body stage hands to Parse: the request template,
\* once the body was read and found to be empty or JSON.
RequestTemplatesParsed(templateRequest, req) ==
    IF /\ templateRequest # EmptyString
       /\ ~req.Body.isNil
       /\ ~req.Body.failing
       /\ Len(req.Body.data) > 0 => jsonValid(req.Body.data)
    THEN <<templateRequest>>
    ELSE <<>>

\* The template the response stage hands to Parse: the one for the captured
\* status code.
ResponseTemplatesParsed(templateResponse, capturedResponse) ==
    SelectTemplate(templateResponse, capturedResponse.statusCode)

Init ==
    /\ rs = RsIdle
    /\ hs = HsIdle
    /\ cs = CsIdle
    /\ qs = QsIdle
    /\ ps = PsIdle
    /\ ms = MsIdle
    /\ plugin \in {New(config) : config \in Configs}
    /\ clock = 1
    /\ serving = [r \in Requests |-> NotServing]

\* Whether ServeHTTP routes the response through handleResponseMasking.
Masking == DOMAIN plugin.bodyModifier.templateResponse # {}

\* ServeHTTP is entered: the Context is built and stored in the instance.
ServeHTTP(r) ==
    /\ serving[r].pc = "idle"
    /\ \E req \in Received :
          serving' = [serving EXCEPT ![r] =
                         [@ EXCEPT !.pc = StageAfter("entry"), !.req = req, !.received = req,
                                   !.own = NewContext(clock)]]
    /\ plugin' = [plugin EXCEPT !.context = NewContext(clock)]
    /\ clock' = clock + 1
    /\ UNCHANGED <<ms, rs, hs, cs, qs, ps>>

\* The header stage, run with the Context the instance holds now.
HeaderStage(r) ==
    /\ serving[r].pc = "header"
    /\ IF plugin.headerModifier # <<>>
       THEN \E order \in ApplyOrders(plugin.headerModifier[1], serving[r].req, plugin.context) :
               serving' = [serving EXCEPT ![r] =
                              [@ EXCEPT !.pc = StageAfter("header"),
                                        !.stages = Append(@, "header"),
                                        !.req = ModifyHeaders(plugin.headerModifier[1], @,
                                                              plugin.context, order),
                                        !.seen = @ \cup {plugin.context}]]
       ELSE serving' = [serving EXCEPT ![r].pc = StageAfter("header")]
    /\ UNCHANGED <<ms, rs, hs, cs, qs, ps, plugin, clock>>

\* The query stage.
QueryStage(r) ==
    /\ serving[r].pc = "query"
    /\ IF plugin.queryModifier # <<>>
       THEN serving' = [serving EXCEPT ![r] =
                           [@ EXCEPT !.pc = StageAfter("query"),
                                     !.stages = Append(@, "query"),
                                     !.parsed = @ \o QueryTemplatesParsed(
                                                         plugin.queryModifier[1].transforms,
                                                         SortedKeys),
                                     !.req = ModifyQueryWithContext(
                                                 plugin.queryModifier[1].transforms, @,
                                                 plugin.context),
                                     !.seen = @ \cup {plugin.context}]]
       ELSE serving' = [serving EXCEPT ![r].pc = StageAfter("query")]
    /\ UNCHANGED <<ms, rs, hs, cs, qs, ps, plugin, clock>>

\* The request-body stage: an error is answered with 400 and ServeHTTP
\* returns; a panic of template.Must unwinds it.
RequestBodyStage(r) ==
    /\ serving[r].pc = "body"
    /\ LET res == ModifyRequestBodyWithContext(plugin.bodyModifier.templateRequest,
                                               serving[r].req, plugin.context)
           parsed == RequestTemplatesParsed(plugin.bodyModifier.templateRequest,
                                            serving[r].req)
       IN serving' = [serving EXCEPT ![r] =
              IF res.panic
              THEN [@ EXCEPT !.pc = "panicked", !.req = res.req,
                             !.stages = Append(@, "body"),
                             !.parsed = @ \o parsed,
                             !.seen = @ \cup {plugin.context}]
              ELSE IF res.err # NoError
              THEN [@ EXCEPT !.pc = "done", !.req = res.req,
                             !.stages = Append(@, "body"),
                             !.parsed = @ \o parsed,
                             !.seen = @ \cup {plugin.context},
                             !.rw = HttpError(@, RequestMaskingError(res.err),
                                              StatusBadRequest)]
              ELSE [@ EXCEPT !.pc = IF Masking THEN "masking" ELSE "next",
                             !.req = res.req,
                             !.stages = Append(@, "body"),
                             !.parsed = @ \o parsed,
                             !.seen = @ \cup {plugin.context},
                             !.originalRequestBody = res.body,
                             !.modifiedRequestBody = res.cleanedBody]]
    /\ UNCHANGED <<ms, rs, hs, cs, qs, ps, plugin, clock>>

\* handleResponseMasking wraps the sink and calls the next handler.
handleResponseMasking(r) ==
    /\ serving[r].pc = "masking"
    /\ serving' = [serving EXCEPT ![r] =
                      [@ EXCEPT !.pc = "handler",
                                !.captureWriter = NewResponseWriter(serving[r].rw),
                                !.stages = Append(@, "handler"),
                                !.served = @ + 1]]
    /\ UNCHANGED <<ms, rs, hs, cs, qs, ps, plugin, clock>>

\* Without response templates the next handler gets the sink itself.
NextServeHTTP(r) ==
    /\ serving[r].pc = "next"
    /\ serving' = [serving EXCEPT ![r] =
                      [@ EXCEPT !.pc = "handler", !.stages = Append(@, "handler"),
                                !.served = @ + 1]]
    /\ UNCHANGED <<ms, rs, hs, cs, qs, ps, plugin, clock>>

\* The downstream handler sets a status code on the writer it was given.
HandlerWriteHeader(r) ==
    /\ serving[r].pc = "handler"
    /\ Len(serving[r].handled) < MaxHandlerCalls
    /\ \E statusCode \in HandlerStatuses :
          serving' = [serving EXCEPT ![r] =
              IF Masking
              THEN LET cw == WriteHeader(serving[r].captureWriter, statusCode)
                   IN [@ EXCEPT !.captureWriter = cw, !.rw = cw.ResponseWriter,
                                !.handled = Append(@, StatusCall(statusCode))]
              ELSE [@ EXCEPT !.rw = SinkWriteHeader(@, statusCode),
                             !.handled = Append(@, StatusCall(statusCode))]]
    /\ UNCHANGED <<ms, rs, hs, cs, qs, ps, plugin, clock>>

\* The downstream handler writes body bytes to the writer it was given.
HandlerWrite(r) ==
    /\ serving[r].pc = "handler"
    /\ Len(serving[r].handled) < MaxHandlerCalls
    /\ \E b \in HandlerChunks :
          serving' = [serving EXCEPT ![r] =
              IF Masking
              THEN LET cw == Write(serving[r].captureWriter, b)
                   IN [@ EXCEPT !.captureWriter = cw, !.rw = cw.ResponseWriter,
                                !.handled = Append(@, BodyCall(b))]
              ELSE [@ EXCEPT !.rw = SinkWrite(@, b),
                             !.handled = Append(@, BodyCall(b))]]
    /\ UNCHANGED <<ms, rs, hs, cs, qs, ps, plugin, clock>>

\* The downstream handler returns.
HandlerReturn(r) ==
    /\ serving[r].pc = "handler"
    /\ serving' = [serving EXCEPT ![r].pc = IF Masking THEN "response" ELSE "done"]
    /\ UNCHANGED <<ms, rs, hs, cs, qs, ps, plugin, clock>>

\* The response stage, run with the Context the instance holds now; its
\* error is answered with 500.
ResponseStage(r) ==
    /\ serving[r].pc = "response"
    /\ LET res == ModifyResponseWithContext(
                      plugin.bodyModifier.templateResponse, serving[r].rw,
                      serving[r].captureWriter, serving[r].originalRequestBody,
                      serving[r].modifiedRequestBody, plugin.context)
           w == IF res.err # NoError /\ ~res.panic
                THEN HttpError(res.w, res.err, StatusInternalServerError)
                ELSE res.w
       IN serving' = [serving EXCEPT ![r] =
              [@ EXCEPT !.pc = IF res.panic THEN "panicked" ELSE "done",
                        !.rw = w,
                        !.captureWriter = [@ EXCEPT !.ResponseWriter = w],
                        !.err = res.err,
                        !.stages = Append(@, "response"),
                        !.parsed = @ \o ResponseTemplatesParsed(
                                            plugin.bodyModifier.templateResponse,
                                            serving[r].captureWriter),
                        !.seen = @ \cup {plugin.context}]]
    /\ UNCHANGED <<ms, rs, hs, cs, qs, ps, plugin, clock>>

Next ==
    \E r \in Requests :
        \/ ServeHTTP(r)
        \/ HeaderStage(r)
        \/ QueryStage(r)
        \/ RequestBodyStage(r)
        \/ handleResponseMasking(r)
        \/ NextServeHTTP(r)
        \/ HandlerWriteHeader(r)
        \/ HandlerWrite(r)
        \/ HandlerReturn(r)
        \/ ResponseStage(r)

Spec == Init /\ [][Next]_vars

\* C2: every stage of a request is handed the Context that was made for
\* that request, whatever other requests the instance serves meanwhile.
C2_StagesSeeOwnContext ==
    \A r \in Requests : serving[r].seen \subseteq {serving[r].own}

\* C3: with a response template configured, the sink has received no
\* status code and no body while the request is on its way to, in, or just
\* back from the downstream handler; what it holds once ServeHTTP has
\* returned after calling the handler is one status code followed by one
\* body.
C3_NothingReachesSinkBeforeResponseStage ==
    \A r \in Requests :
        Masking =>
            /\ serving[r].pc \in {"header", "query", "body", "masking", "handler", "response"}
                  => serving[r].rw.calls = <<>>
            /\ serving[r].pc = "done" /\ serving[r].served > 0
                  => /\ Len(serving[r].rw.calls) = 2
                     /\ serving[r].rw.calls[1].op = "WriteHeader"
                     /\ serving[r].rw.calls[2].op = "Write"

\* The handler has set a status code and written a body into the capture,
\* and is still running.
C3_Witness ==
    \E r \in Requests :
        /\ Masking
        /\ serving[r].pc = "handler"
        /\ Len(StatusWritten(serving[r].handled)) > 0
        /\ BodyWritten(serving[r].handled) # <<>>
        /\ GetBody(serving[r].captureWriter) # <<>>

\* Whether the request-body stage fails for a template and a body.
RequestStageFails(templateRequest, body) ==
    /\ templateRequest # EmptyString
    /\ ~body.isNil
    /\ \/ body.failing
       \/ Len(body.data) > 0 /\ ~jsonValid(body.data)
       \/ /\ Parses(templateRequest, TRUE)
          /\ Execute(templateRequest.segs, RequestTemplateData(body.data, NilContext)).err

ResponseTemplateFails(templateResponse, capturedResponse) ==
    /\ capturedResponse.statusCode \in DOMAIN templateResponse
    /\ Parses(templateResponse[capturedResponse.statusCode], TRUE)
    /\ Execute(templateResponse[capturedResponse.statusCode].segs,
               ResponseTemplateData(capturedResponse, <<>>, <<>>, NilContext)).err

RECURSIVE StripQuoted(_)
StripQuoted(bs) ==
    IF bs = <<>> THEN <<>>
    ELSE IF Len(bs) >= 3 /\ bs[1] = Quote /\ bs[2] = NoValue /\ bs[3] = Quote
    THEN <<Quote, Quote>> \o StripQuoted(SubSeq(bs, 4, Len(bs)))
    ELSE <<Head(bs)>> \o StripQuoted(Tail(bs))

\* The requests whose body the request stage has replaced, and what the
\* request template renders for them with a Context.
BodyInstalled(r) ==
    /\ plugin.bodyModifier.templateRequest # EmptyString
    /\ ~serving[r].received.Body.isNil
    /\ \/ serving[r].pc \in {"masking", "next", "handler", "response"}
       \/ serving[r].pc \in {"done", "panicked"} /\ serving[r].served > 0
RequestRendering(r, ctx) ==
    Execute(plugin.bodyModifier.templateRequest.segs,
            RequestTemplateData(serving[r].received.Body.data, ctx)).buf
\* The requests whose response a template has rewritten, and what that
\* template renders for them with a Context.
ResponseRewritten(r) ==
    /\ serving[r].pc = "done"
    /\ serving[r].served > 0
    /\ GetStatusCode(serving[r].captureWriter) \in DOMAIN plugin.bodyModifier.templateResponse
    /\ serving[r].err = NoError
ResponseRendering(r, ctx) ==
    Execute(plugin.bodyModifier.templateResponse[GetStatusCode(serving[r].captureWriter)].segs,
            ResponseTemplateData(serving[r].captureWriter, serving[r].originalRequestBody,
                                 serving[r].modifiedRequestBody, ctx)).buf

C24_LengthsMatchInstalledBody ==
    \A r \in Requests :
        BodyInstalled(r) =>
            /\ serving[r].req.ContentLength = ByteLen(serving[r].req.Body.data)
            /\ HeaderValues(serving[r].req.Header, "Content-Length")
                   = <<Itoa(ByteLen(serving[r].req.Body.data))>>
            /\ serving[r].modifiedRequestBody = serving[r].req.Body.data

\* A request that came with an empty body is in the handler with a body
\* that cleaning made shorter than the rendering.
C24_Witness ==
    \E r \in Requests :
        /\ BodyInstalled(r)
        /\ serving[r].pc = "handler"
        /\ serving[r].received.ContentLength = 0
        /\ serving[r].req.ContentLength > 0
        /\ \E ctx \in serving[r].seen :
              ByteLen(serving[r].req.Body.data) < ByteLen(RequestRendering(r, ctx))
        /\ HeaderValues(serving[r].req.Header, "Content-Length")
               = <<Itoa(serving[r].req.ContentLength)>>

\* The Environment of a request template when the body is the null value.
NullBodyData(ctx) == ContextData(ctx) @@ [p \in {"request.api.body"} |-> <<NoValue>>]

\* C25: a step of the request-body stage for a request without a body, or
\* with no request template configured, leaves the request (body,
\* ContentLength, headers) and the sink as they were and goes on to the
\* handler; for a request with an empty body and a template that compiles
\* and executes against the null value it writes no error either, returns
\* no original bytes and installs the template's rendering of the null
\* value.
C25_NoTemplateOrNoBodyIsNoOp ==
    [][\A r \in Requests :
          serving[r].pc = "body" /\ serving'[r].pc # "body" =>
              LET templateRequest == plugin.bodyModifier.templateRequest
                  before == serving[r]
                  after == serving'[r]
              IN /\ templateRequest = EmptyString \/ before.req.Body.isNil =>
                        /\ after.req = before.req
                        /\ after.rw = before.rw
                        /\ after.pc \in {"masking", "next"}
                 /\ /\ templateRequest # EmptyString
                    /\ before.req.Body = Body(<<>>)
                    /\ Parses(templateRequest, TRUE)
                    /\ ~Execute(templateRequest.segs, NullBodyData(plugin.context)).err
                    => /\ after.rw = before.rw
                       /\ after.pc \in {"masking", "next"}
                       /\ after.originalRequestBody = <<>>
                       /\ after.req.Body =
                              Body(ReplaceAll(
                                       Execute(templateRequest.segs,
                                               NullBodyData(plugin.context)).buf,
                                       QuotedNoValue, EmptyJSONString))]_vars

\* With a request template configured, a request without a body is in the
\* handler as it was after the query stage, and a request with an empty
\* body is in the handler with the rendering of the null value as its body.
C25_Witness ==
    \E r1, r2 \in Requests :
        /\ plugin.bodyModifier.templateRequest # EmptyString
        /\ serving[r1].pc = "handler"
        /\ serving[r1].received.Body.isNil
        /\ serving[r1].req.Body.isNil
        /\ serving[r1].req.ContentLength = 0
        /\ HeaderValues(serving[r1].req.Header, "Content-Length") = <<>>
        /\ HeaderValues(serving[r1].req.Header, "X-B") # <<>>
        /\ serving[r2].pc = "handler"
        /\ serving[r2].received.Body = Body(<<>>)
        /\ serving[r2].req.Body.data # <<>>
        /\ serving[r2].rw.calls = <<>>

\* The Environment the response stage of a request builds, with a Context.
ResponseEnvironment(r, ctx) ==
    ResponseTemplateData(serving[r].captureWriter, serving[r].originalRequestBody,
                         serving[r].modifiedRequestBody, ctx)

\* C26: when the response stage of a request is about to run,
\* request.api.body is the parse of the body the request came with and
\* request.modified.body is the parse of the body the request was forwarded
\* with (null when the bytes are empty or not JSON).
C26_ResponseStageSeesBothRequestBodies ==
    \A r \in Requests :
        serving[r].pc = "response" =>
            /\ ResponseEnvironment(r, plugin.context)["request.api.body"]
                   = RequestData(serving[r].received.Body.data)
            /\ ResponseEnvironment(r, plugin.context)["request.modified.body"]
                   = RequestData(serving[r].req.Body.data)

\* The same for the requests whose body the request-body stage replaced:
\* for these both values are as stated.
ResponseStageSeesBothBodiesWhenReplaced ==
    \A r \in Requests :
        serving[r].pc = "response" /\ BodyInstalled(r) =>
            /\ ResponseEnvironment(r, plugin.context)["request.api.body"]
                   = RequestData(serving[r].received.Body.data)
            /\ ResponseEnvironment(r, plugin.context)["request.modified.body"]
                   = RequestData(serving[r].req.Body.data)

\* C18: no template is handed to Parse while a request is being served.
C18_NoTemplateCompiledPerRequest ==
    \A r \in Requests : serving[r].parsed = <<>>

\* Whether the instance holds a request-body or response-body template that
\* does not compile.
HoldsUncompilableBodyTemplate ==
    \/ ~Parses(plugin.bodyModifier.templateRequest, TRUE)
    \/ \E code \in DOMAIN plugin.bodyModifier.templateResponse :
          ~Parses(plugin.bodyModifier.templateResponse[code], TRUE)

\* C19: an instance holding a request-body or response-body template that
\* does not compile serves no request.
C19_UncompilableBodyTemplateServesNothing ==
    HoldsUncompilableBodyTemplate => \A r \in Requests : serving[r].pc = "idle"

\* The place of each stage in the order of the pipeline.
StageRank(stage) ==
    CASE stage = "header" -> 1
      [] stage = "query" -> 2
      [] stage = "body" -> 3
      [] stage = "handler" -> 4
      [] stage = "response" -> 5

\* C20: the stages a request has been through are in the order header,
\* query, request body, downstream handler, response body, none of them
\* twice; the handler is never invoked when the request-body stage fails,
\* and has been invoked exactly once when ServeHTTP returns otherwise.
C20_StagesRunInOrderOnce ==
    \A r \in Requests :
        LET stages == serving[r].stages
            failed == RequestStageFails(plugin.bodyModifier.templateRequest,
                                        serving[r].received.Body)
        IN /\ \A i, j \in 1..Len(stages) : i < j => StageRank(stages[i]) < StageRank(stages[j])
           /\ serving[r].served = Cardinality({i \in 1..Len(stages) : stages[i] = "handler"})
           /\ failed => serving[r].served = 0
           /\ serving[r].pc = "done" /\ ~failed => serving[r].served = 1

\* A request has been through all five stages while the other was served.
C20_Witness ==
    /\ serving[1].pc = "done"
    /\ serving[1].stages = <<"header", "query", "body", "handler", "response">>
    /\ serving[1].handled # <<>>
    /\ serving[2].pc \notin {"idle", "done"}
    /\ serving[2].stages # <<>>

\* Whether a header entry is dropped by NewHeaderModifier or skipped by
\* ModifyHeaders for a request, and whether it yields a value to install.
HeaderEntryFails(t, req, ctx) ==
    /\ t # EmptyString
    /\ \/ ~Parses(t, FALSE)
       \/ Execute(t.segs, HeaderTemplateData(req, ctx)).err
HeaderEntryRendering(t, req, ctx) == TrimSpace(Execute(t.segs, HeaderTemplateData(req, ctx)).buf)
HeaderEntryRenders(t, req, ctx) ==
    /\ t # EmptyString
    /\ ~HeaderEntryFails(t, req, ctx)
    /\ HeaderEntryRendering(t, req, ctx) # <<>>

\* The same for a query transform.
QueryEntryFails(t, req, ctx) ==
    \/ ~Parses(t, TRUE)
    \/ Execute(t.segs, QueryTemplateData(req, Query(req.RawQuery), ctx)).err
QueryEntryRendering(t, req, ctx) ==
    ReplaceAll(Execute(t.segs, QueryTemplateData(req, Query(req.RawQuery), ctx)).buf,
               <<NoValue>>, <<>>)
QueryEntryRenders(t, req, ctx) ==
    ~QueryEntryFails(t, req, ctx) /\ QueryEntryRendering(t, req, ctx) # <<>>

\* The header and query entries of a configuration.
HeaderEntries(config) == config.ModifierHeader
QueryEntries(config) ==
    IF config.ModifierQuery = <<>> THEN NoHeaders ELSE config.ModifierQuery[1].Transform

\* Whether the instance was made by New from a configuration; the Context it
\* holds changes with every request.
Configured(config) == [plugin EXCEPT !.context = EmptyContext] = New(config)

\* C21: a header or query entry whose template does not compile or fails to
\* execute writes nothing (the header, the parameter, keep the values the
\* request had), every other entry that renders a value has that value
\* installed (a header as its last value, a parameter as its only value),
\* and no request ends before the downstream handler unless the
\* request-body stage ended it.
C21_FailingEntryIsSkippedAlone ==
    \A r \in Requests : \A config \in Configs :
        Configured(config) =>
            LET received == serving[r].received
                req == serving[r].req
                afterHeaders == [received EXCEPT !.Header = req.Header]
                headers == HeaderEntries(config)
                transforms == QueryEntries(config)
            IN /\ serving[r].pc = "query" =>
                      \A name \in DOMAIN headers : \E ctx \in serving[r].seen :
                          /\ /\ HeaderEntryFails(headers[name], received, ctx)
                             /\ \A other \in DOMAIN headers \ {name} : ~EqualFold(other, name)
                             => HeaderValues(req.Header, name) = HeaderValues(received.Header, name)
                          /\ HeaderEntryRenders(headers[name], received, ctx)
                             => InSeq(HeaderEntryRendering(headers[name], received, ctx),
                                      HeaderValues(req.Header, name))
               /\ serving[r].pc = "body" =>
                      \A key \in DOMAIN transforms : \E ctx \in serving[r].seen :
                          /\ QueryEntryFails(transforms[key], afterHeaders, ctx)
                             => QsRawValues(req.RawQuery, key)
                                    = QsValues(Query(received.RawQuery), key)
                          /\ QueryEntryRenders(transforms[key], afterHeaders, ctx)
                             => QsRawValues(req.RawQuery, key)
                                    = <<QueryEntryRendering(transforms[key], afterHeaders, ctx)>>
               /\ serving[r].pc \in {"done", "panicked"} /\ serving[r].served = 0 =>
                      /\ plugin.bodyModifier.templateRequest # EmptyString
                      /\ ~received.Body.isNil

\* A request whose configuration has a header entry that fails to execute
\* and a query entry that does not compile has been through the handler
\* with the sibling header and the sibling parameter installed.
C21_Witness ==
    \E r \in Requests : \E config \in Configs :
        /\ Configured(config)
        /\ serving[r].pc = "done"
        /\ serving[r].served = 1
        /\ \E ctx \in serving[r].seen :
              /\ HeaderEntryFails(HeaderEntries(config)["X-A"], serving[r].received, ctx)
              /\ Parses(HeaderEntries(config)["X-A"], FALSE)
              /\ HeaderEntryRenders(HeaderEntries(config)["X-B"], serving[r].received, ctx)
        /\ ~Parses(QueryEntries(config)["ask_id"], TRUE)
        /\ HeaderValues(serving[r].req.Header, "X-A") = <<<<"a">>>>
        /\ HeaderValues(serving[r].req.Header, "X-B") = <<<<"a">>>>
        /\ serving[r].req.RawQuery = <<<<"ask_id", <<"1">>>>, <<"question_id", <<"a", "1">>>>>>

\* Whether a template calls a function of the Function Library.
CallsLibrary(t) == t.wellFormed /\ \E i \in 1..Len(t.segs) : t.segs[i].k = "call"

\* The response template for the status code a request's capture holds, as
\* a sequence.
MatchedTemplate(r) ==
    SelectTemplate(plugin.bodyModifier.templateResponse,
                   GetStatusCode(serving[r].captureWriter))

\* C28: a configured template that calls a library function is applied in
\* whichever stage it belongs to: as a header template its rendering is a
\* value of the header after the header stage, as a query template its
\* rendering is the parameter's value after the query stage, as the
\* request template its rendering is the body forwarded, as a response
\* template its rendering is the body written to the client.
C28_LibraryCallableInEveryStage ==
    \A r \in Requests : \A config \in Configs :
        Configured(config) =>
            LET received == serving[r].received
                req == serving[r].req
                afterHeaders == [received EXCEPT !.Header = req.Header]
                headers == HeaderEntries(config)
                transforms == QueryEntries(config)
            IN /\ serving[r].pc = "query" =>
                      \A name \in DOMAIN headers :
                          CallsLibrary(headers[name]) =>
                              \E ctx \in serving[r].seen :
                                  InSeq(HeaderEntryRendering(headers[name], received, ctx),
                                        HeaderValues(req.Header, name))
               /\ serving[r].pc = "body" =>
                      \A key \in DOMAIN transforms :
                          CallsLibrary(transforms[key]) =>
                              \E ctx \in serving[r].seen :
                                  QsRawValues(req.RawQuery, key)
                                      = <<QueryEntryRendering(transforms[key], afterHeaders, ctx)>>
               /\ serving[r].pc = "handler" /\ BodyInstalled(r)
                     /\ CallsLibrary(config.ModifierRequest) =>
                      \E ctx \in serving[r].seen :
                          req.Body.data = StripQuoted(RequestRendering(r, ctx))
               /\ ResponseRewritten(r) /\ CallsLibrary(MatchedTemplate(r)[1]) =>
                      \E ctx \in serving[r].seen :
                          BodyWritten(serving[r].rw.calls) = ResponseRendering(r, ctx)

\* The same without the header templates: in query, request-body and
\* response-body templates the library is callable.
LibraryCallableOutsideHeaders ==
    \A r \in Requests : \A config \in Configs :
        Configured(config) =>
            LET received == serving[r].received
                req == serving[r].req
                afterHeaders == [received EXCEPT !.Header = req.Header]
                transforms == QueryEntries(config)
            IN /\ serving[r].pc = "body" =>
                      \A key \in DOMAIN transforms :
                          CallsLibrary(transforms[key]) =>
                              \E ctx \in serving[r].seen :
                                  QsRawValues(req.RawQuery, key)
                                      = <<QueryEntryRendering(transforms[key], afterHeaders, ctx)>>
               /\ serving[r].pc = "handler" /\ BodyInstalled(r)
                     /\ CallsLibrary(config.ModifierRequest) =>
                      \E ctx \in serving[r].seen :
                          req.Body.data = StripQuoted(RequestRendering(r, ctx))
               /\ ResponseRewritten(r) /\ CallsLibrary(MatchedTemplate(r)[1]) =>
                      \E ctx \in serving[r].seen :
                          BodyWritten(serving[r].rw.calls) = ResponseRendering(r, ctx)

\* C29: with response templates configured, the sink of a request whose
\* handler was called has received no status code while the handler runs
\* or has just returned, and exactly one once the response stage has run:
\* the captured status code when the stage returned no error, 500 when it
\* returned one.
C29_OneStatusWriteAfterHandler ==
    \A r \in Requests :
        Masking /\ serving[r].served > 0 =>
            /\ serving[r].pc \in {"handler", "response"} =>
                   StatusWritten(serving[r].rw.calls) = <<>>
            /\ serving[r].pc \in {"done", "panicked"} =>
                   StatusWritten(serving[r].rw.calls) =
                       <<IF serving[r].err = NoError
                         THEN GetStatusCode(serving[r].captureWriter)
                         ELSE StatusInternalServerError>>

\* The same for the requests whose response stage returned: these have
\* received exactly one status code, as stated.
OneStatusWriteWhenResponseStageReturns ==
    \A r \in Requests :
        Masking /\ serving[r].served > 0 =>
            /\ serving[r].pc \in {"handler", "response"} =>
                   StatusWritten(serving[r].rw.calls) = <<>>
            /\ serving[r].pc = "done" =>
                   StatusWritten(serving[r].rw.calls) =
                       <<IF serving[r].err = NoError
                         THEN GetStatusCode(serving[r].captureWriter)
                         ELSE StatusInternalServerError>>

\* ----------------------------------------- the header primitives, by themselves

MaxOps == 3
PrimitiveNames == {"X-A", "x-a", "X-B"}
PrimitiveValues ==
    { Template(<<Lit("c")>>),
      Template(<<Lit("d"), Header("x-a")>>),
      Template(<<Lit("c"), Fail>>),
      EmptyString,
      Malformed,
      MalformedClosed }
PrimitiveHeaders == {NoHeaders, "X-A" :> <<<<"a">>, <<"b">>>> @@ "X-B" :> <<<<"b">>>>}
SetCall(name, value) == [op |-> "SetHeader", name |-> name, value |-> value]
AddCall(name, value) == [op |-> "AddHeader", name |-> name, value |-> value]
RemoveCall(name) == [op |-> "RemoveHeader", name |-> name, value |-> EmptyString]

\* Besides the request, its headers at the start and before the last call,
\* and the calls made.
PsInit ==
    /\ rs = RsIdle
    /\ hs = HsIdle
    /\ cs = CsIdle
    /\ qs = QsIdle
    /\ ms = MsIdle
    /\ PluginIdle
    /\ ps \in {[pc |-> "open", req |-> Request(header, <<>>, NilBody),
                first |-> header, prev |-> header, history |-> <<>>] :
                  header \in PrimitiveHeaders}

PsSetHeader ==
    /\ ps.pc = "open"
    /\ Len(ps.history) < MaxOps
    /\ \E name \in PrimitiveNames, value \in PrimitiveValues :
          ps' = [ps EXCEPT !.req = SetHeader(@, name, value, NewContext(1)),
                           !.prev = ps.req.Header,
                           !.history = Append(@, SetCall(name, value))]
    /\ UNCHANGED <<ms, rs, hs, cs, qs, plugin, clock, serving>>

PsAddHeader ==
    /\ ps.pc = "open"
    /\ Len(ps.history) < MaxOps
    /\ \E name \in PrimitiveNames, value \in PrimitiveValues :
          ps' = [ps EXCEPT !.req = AddHeader(@, name, value, NewContext(1)),
                           !.prev = ps.req.Header,
                           !.history = Append(@, AddCall(name, value))]
    /\ UNCHANGED <<ms, rs, hs, cs, qs, plugin, clock, serving>>

PsRemoveHeader ==
    /\ ps.pc = "open"
    /\ Len(ps.history) < MaxOps
    /\ \E name \in PrimitiveNames :
          ps' = [ps EXCEPT !.req = RemoveHeader(@, name),
                           !.prev = ps.req.Header,
                           !.history = Append(@, RemoveCall(name))]
    /\ UNCHANGED <<ms, rs, hs, cs, qs, plugin, clock, serving>>

PsNext == PsSetHeader \/ PsAddHeader \/ PsRemoveHeader

SpecPrimitives == PsInit /\ [][PsNext]_vars

PsOpen == ps.pc = "open"
PsLast == ps.history[Len(ps.history)]
PsIsLiteral(value) == value # EmptyString /\ ~containsTemplate(value)
\* The values of the calls made, in call order.
RECURSIVE PsTexts(_)
PsTexts(history) ==
    IF history = <<>> THEN <<>> ELSE <<Text(Head(history).value.segs)>> \o PsTexts(Tail(history))

\* C15: when every call so far was an AddHeader of a non-empty literal value
\* to one header, the header holds the values it had at the start followed
\* by the added values in call order.
C15_AddHeaderAccumulates ==
    PsOpen =>
        \A name \in PrimitiveNames :
            (\A i \in 1..Len(ps.history) :
                /\ ps.history[i].op = "AddHeader"
                /\ EqualFold(ps.history[i].name, name)
                /\ PsIsLiteral(ps.history[i].value))
            => HeaderValues(ps.req.Header, name)
                   = HeaderValues(ps.first, name) \o PsTexts(ps.history)

\* Three values were added, under two spellings of the name, to a header
\* that had two.
C15_Witness ==
    /\ PsOpen
    /\ Len(ps.history) = MaxOps
    /\ \A i \in 1..Len(ps.history) :
          ps.history[i].op = "AddHeader" /\ PsIsLiteral(ps.history[i].value)
    /\ ps.history[1].name = "X-A"
    /\ ps.history[2].name = "x-a"
    /\ ps.history[3].name = "X-A"
    /\ Len(HeaderValues(ps.first, "X-A")) = 2
    /\ Len(HeaderValues(ps.req.Header, "X-A")) = 5

\* C16: right after RemoveHeader(name), whatever calls came before, the
\* header has no value under any spelling of the name, and every other
\* header has the values it had before the call.
C16_RemoveHeaderRemoves ==
    PsOpen /\ ps.history # <<>> /\ PsLast.op = "RemoveHeader" =>
        \A name \in PrimitiveNames :
            IF EqualFold(name, PsLast.name)
            THEN /\ HeaderValues(ps.req.Header, name) = <<>>
                 /\ name \notin DOMAIN ps.req.Header
            ELSE HeaderValues(ps.req.Header, name) = HeaderValues(ps.prev, name)

\* A header that was set and added to is removed under another spelling.
C16_Witness ==
    /\ PsOpen
    /\ Len(ps.history) = MaxOps
    /\ ps.history[1].op = "SetHeader"
    /\ ps.history[2].op = "AddHeader"
    /\ PsLast = RemoveCall("x-a")
    /\ Len(HeaderValues(ps.prev, "X-A")) = 2
    /\ HeaderValues(ps.req.Header, "X-A") = <<>>
    /\ HeaderValues(ps.req.Header, "X-B") # <<>>

\* What the last call's value renders to against the headers before it.
PsRendering ==
    Execute(PsLast.value.segs,
            HeaderTemplateData([ps.req EXCEPT !.Header = ps.prev], NewContext(1)))

\* C17 as stated: right after SetHeader with a non-empty value the header
\* has exactly one value, the value itself when it holds no delimiters and
\* else its rendering against the headers as they were at the call.
C17_SetHeaderLeavesOneValue ==
    PsOpen /\ ps.history # <<>> /\ PsLast.op = "SetHeader" /\ PsLast.value # EmptyString =>
        HeaderValues(ps.req.Header, PsLast.name) =
            <<IF containsTemplate(PsLast.value) THEN PsRendering.buf
              ELSE Text(PsLast.value.segs)>>

\* C17 as amended: the same when the value holds no delimiters or is a
\* template that parses and executes; when the template does not parse or
\* fails to execute, every header has the values it had before the call.
C17_SetHeaderLeavesOneValueOrFails ==
    PsOpen /\ ps.history # <<>> /\ PsLast.op = "SetHeader" /\ PsLast.value # EmptyString =>
        IF ~containsTemplate(PsLast.value)
        THEN HeaderValues(ps.req.Header, PsLast.name) = <<Text(PsLast.value.segs)>>
        ELSE IF Parses(PsLast.value, FALSE) /\ ~PsRendering.err
        THEN HeaderValues(ps.req.Header, PsLast.name) = <<PsRendering.buf>>
        ELSE ps.req.Header = ps.prev

\* A header with two values is set from a template that reads that header.
C17_Witness ==
    /\ PsOpen
    /\ ps.history # <<>>
    /\ PsLast = SetCall("x-a", Template(<<Lit("d"), Header("x-a")>>))
    /\ HeaderValues(ps.prev, "X-A") = <<<<"a">>, <<"b">>>>
    /\ HeaderValues(ps.req.Header, "X-A") = <<<<"d", "a">>>>

\* ---------------------------------------- the query transformer, by itself

MaxPairs == 2
QueryValues == {<<"1">>, <<"2">>, <<BadEscape>>}
RawQueries ==
    SeqsUpTo({<<key, value>> : key \in {"ask_id", "question_id"}, value \in QueryValues},
             MaxPairs)
QueryTemplates ==
    { Template(<<QueryRef("ask_id")>>),
      Template(<<QueryRef("ask_id"), Lit("_"), UnixTime>>),
      Template(<<Lit("a"), QueryRef("question_id")>>),
      Template(<<Call("now")>>),
      Template(<<Lit("c"), Fail>>),
      EmptyString,
      Malformed }
QueryTransforms ==
    UNION {[keys -> QueryTemplates] : keys \in SUBSET {"ask_id", "question_id"}}

QsInit ==
    /\ rs = RsIdle
    /\ hs = HsIdle
    /\ cs = CsIdle
    /\ ps = PsIdle
    /\ ms = MsIdle
    /\ PluginIdle
    /\ qs \in {[pc |-> "ready", transforms |-> transforms,
                req |-> Request(NoHeaders, rawQuery, NilBody), before |-> rawQuery] :
                  transforms \in QueryTransforms, rawQuery \in RawQueries}

QsModifyQuery ==
    /\ qs.pc = "ready"
    /\ qs' = [qs EXCEPT !.pc = "modified",
                        !.req = ModifyQueryWithContext(NewQueryModifier(qs.transforms).transforms,
                                                       qs.req, NewContext(1))]
    /\ UNCHANGED <<ms, rs, hs, cs, ps, plugin, clock, serving>>

QsNext == QsModifyQuery

SpecQuery == QsInit /\ [][QsNext]_vars

QsModified == qs.pc = "modified"
\* The parameters as req.URL.Query() gives them before and after the call.
QsBefore == Query(qs.before)
QsAfter == Query(qs.req.RawQuery)
\* What a target's template renders to against the parameters before the
\* call, and that text without the placeholder.
QsResult(key) ==
    Execute(qs.transforms[key].segs,
            QueryTemplateData([qs.req EXCEPT !.RawQuery = qs.before], QsBefore, NewContext(1)))
QsCleaned(key) == ReplaceAll(QsResult(key).buf, <<NoValue>>, <<>>)
\* The targets whose template yields a non-empty cleaned result.
QsWritten ==
    {key \in DOMAIN qs.transforms :
        Parses(qs.transforms[key], TRUE) /\ ~QsResult(key).err /\ QsCleaned(key) # <<>>}

\* C12: a parameter the query string held before the call, and that no
\* transform with a non-empty cleaned result targets, has the same values
\* in the same order afterwards.
C12_OtherParametersKeepTheirValues ==
    QsModified =>
        \A key \in QsRawKeys(qs.before) \ QsWritten :
            QsRawValues(qs.req.RawQuery, key) = QsRawValues(qs.before, key)

\* The same for the parameters req.URL.Query() yields, which leaves out
\* the pairs that do not decode: these do keep their values.
QsParsedParametersKeepTheirValues ==
    QsModified /\ DOMAIN qs.transforms # {} =>
        \A key \in DOMAIN QsBefore \ QsWritten : QsValues(QsAfter, key) = QsBefore[key]

\* C13: a target whose template parses and executes with a non-empty
\* cleaned result (the rendering against the parameters before the call,
\* every placeholder removed) ends with that result as its only value,
\* whether or not the key existed; any other target is left as it was.
C13_TargetGetsCleanedResult ==
    QsModified =>
        \A key \in DOMAIN qs.transforms :
            IF key \in QsWritten
            THEN QsRawValues(qs.req.RawQuery, key) = <<QsCleaned(key)>>
            ELSE QsRawValues(qs.req.RawQuery, key) = QsRawValues(qs.before, key)

\* The same with "as it was" read off req.URL.Query(): this holds.
QsParsedTargetGetsCleanedResult ==
    QsModified =>
        \A key \in DOMAIN qs.transforms :
            IF key \in QsWritten
            THEN QsValues(QsAfter, key) = <<QsCleaned(key)>>
            ELSE QsValues(QsAfter, key) = QsValues(QsBefore, key)

\* ------------------------------------------ handleResponseMasking, by itself
\* One pass: the handler sets headers, a status code and body bytes on the
\* capture and returns, then the response stage runs.

MaxSinkCalls == 3
MaskingTemplates ==
    { Template(<<Lit("1")>>), Template(<<Lit("a")>>), Template(<<Lit("1"), Fail>>), Malformed }
HandlerHeaders ==
    { <<"Content-Type", "text/html">>, <<"Content-Length", "9">>, <<"X-Trace", "t">> }
HeaderCall(key, value) == [op |-> "Header.Set", code |-> 0, data |-> <<key, value>>]

MsInit ==
    /\ rs = RsIdle
    /\ hs = HsIdle
    /\ cs = CsIdle
    /\ qs = QsIdle
    /\ ps = PsIdle
    /\ PluginIdle
    /\ ms \in {[pc |-> "handler", templateResponse |-> 200 :> t, rw |-> NewSink,
                captureWriter |-> NewResponseWriter(NewSink), handled |-> <<>>,
                err |-> NoError] : t \in MaskingTemplates}

\* The capture and the sink it embeds after a call on the capture.
MsAfter(cw, call) ==
    [ms EXCEPT !.captureWriter = cw, !.rw = cw.ResponseWriter, !.handled = Append(@, call)]

MsHandlerSetHeader ==
    /\ ms.pc = "handler"
    /\ Len(ms.handled) < MaxSinkCalls
    /\ \E h \in HandlerHeaders :
          ms' = MsAfter(CaptureHeaderSet(ms.captureWriter, h[1], h[2]), HeaderCall(h[1], h[2]))
    /\ UNCHANGED <<rs, hs, cs, qs, ps, plugin, clock, serving>>

MsHandlerWriteHeader ==
    /\ ms.pc = "handler"
    /\ Len(ms.handled) < MaxSinkCalls
    /\ \E statusCode \in HandlerStatuses :
          ms' = MsAfter(WriteHeader(ms.captureWriter, statusCode), StatusCall(statusCode))
    /\ UNCHANGED <<rs, hs, cs, qs, ps, plugin, clock, serving>>

MsHandlerWrite ==
    /\ ms.pc = "handler"
    /\ Len(ms.handled) < MaxSinkCalls
    /\ \E b \in HandlerChunks :
          ms' = MsAfter(Write(ms.captureWriter, b), BodyCall(b))
    /\ UNCHANGED <<rs, hs, cs, qs, ps, plugin, clock, serving>>

MsHandlerReturn ==
    /\ ms.pc = "handler"
    /\ ms' = [ms EXCEPT !.pc = "response"]
    /\ UNCHANGED <<rs, hs, cs, qs, ps, plugin, clock, serving>>

\* The response stage; its error is answered by http.Error, which keeps or
\* deletes Content-Length depending on the Go release the plugin runs on.
MsResponseStage ==
    /\ ms.pc = "response"
    /\ LET res == ModifyResponseWithContext(ms.templateResponse, ms.rw, ms.captureWriter,
                                            <<>>, <<>>, NewContext(1))
       IN \E w \in IF res.err # NoError /\ ~res.panic
                    THEN {HttpError(res.w, res.err, StatusInternalServerError),
                          HttpErrorResetting(res.w, res.err, StatusInternalServerError)}
                    ELSE {res.w} :
              ms' = [ms EXCEPT !.pc = IF res.panic THEN "panicked" ELSE "done",
                               !.rw = w,
                               !.captureWriter = [@ EXCEPT !.ResponseWriter = w],
                               !.err = res.err]
    /\ UNCHANGED <<rs, hs, cs, qs, ps, plugin, clock, serving>>

MsNext ==
    \/ MsHandlerSetHeader
    \/ MsHandlerWriteHeader
    \/ MsHandlerWrite
    \/ MsHandlerReturn
    \/ MsResponseStage

SpecMasking == MsInit /\ [][MsNext]_vars

\* The headers the handler's calls amount to: for each name the value set
\* last.
RECURSIVE HeadersSet(_)
HeadersSet(calls) ==
    IF calls = <<>> THEN NoHeaders
    ELSE LET last == calls[Len(calls)]
             before == HeadersSet(SubSeq(calls, 1, Len(calls) - 1))
         IN IF last.op = "Header.Set" THEN HeaderSet(before, last.data[1], last.data[2])
            ELSE before

MsHeader(name) == IF name \in DOMAIN ms.rw.header THEN ms.rw.header[name] ELSE ""
MsStatus == GetStatusCode(ms.captureWriter)
MsMatched == MsStatus \in DOMAIN ms.templateResponse
MsRendering ==
    Execute(ms.templateResponse[MsStatus].segs,
            ResponseTemplateData(ms.captureWriter, <<>>, <<>>, NewContext(1))).buf
\* The headers the response stage writes itself on the path taken.
MsWrittenByStage ==
    IF ms.pc = "panicked" \/ ~MsMatched THEN {}
    ELSE IF ms.err # NoError THEN {"Content-Type", "X-Content-Type-Options", "Content-Length"}
    ELSE IF jsonValid(MsRendering) THEN {"Content-Length", "Content-Type"}
    ELSE {"Content-Length"}

\* The headers the handler set are in the sink's header set while the
\* handler runs and nothing else has reached the sink; after the response
\* stage each of them is still there with the handler's value unless it is
\* one of the excepted names.
MsHandlerHeadersRemainExcept(excepted) ==
    /\ ms.pc \in {"handler", "response"} =>
           /\ ms.rw.header = HeadersSet(ms.handled)
           /\ ms.rw.calls = <<>>
    /\ ms.pc \in {"done", "panicked"} =>
           \A name \in DOMAIN HeadersSet(ms.handled) \ excepted :
               /\ name \in DOMAIN ms.rw.header
               /\ ms.rw.header[name] = HeadersSet(ms.handled)[name]

\* C30 as stated: the headers the handler sets through the capture are in
\* the sink's header set while the handler runs, and they remain after the
\* response stage on the pass-through path, on the rewrite paths (except
\* Content-Length and, for JSON output, Content-Type) and on the error
\* path.
C30_HandlerHeadersRemain ==
    MsHandlerHeadersRemainExcept(IF ms.err # NoError THEN {} ELSE MsWrittenByStage)

\* C30 as amended: the same, except that on the error path too the headers
\* the error answer writes are overwritten: Content-Type becomes
\* text/plain; charset=utf-8 and X-Content-Type-Options nosniff, and
\* Content-Length is either left as the handler set it or deleted.
C30_HandlerHeadersRemainUnlessWritten ==
    /\ MsHandlerHeadersRemainExcept(MsWrittenByStage)
    /\ ms.pc = "done" /\ ms.err # NoError =>
           /\ MsHeader("Content-Type") = "text/plain; charset=utf-8"
           /\ MsHeader("X-Content-Type-Options") = "nosniff"
           /\ \/ "Content-Length" \notin DOMAIN ms.rw.header
              \/ /\ "Content-Length" \in DOMAIN HeadersSet(ms.handled)
                 /\ MsHeader("Content-Length") = HeadersSet(ms.handled)["Content-Length"]

\* The handler set Content-Type, Content-Length and X-Trace, the template
\* failed to execute: X-Trace is in the 500 answer, Content-Type is the
\* error answer's, Content-Length is gone.
C30_Witness ==
    /\ ms.pc = "done"
    /\ ms.err # NoError
    /\ DOMAIN HeadersSet(ms.handled) = {"Content-Type", "Content-Length", "X-Trace"}
    /\ MsHeader("X-Trace") = "t"
    /\ MsHeader("Content-Type") = "text/plain; charset=utf-8"
    /\ "Content-Length" \notin DOMAIN ms.rw.header
    /\ StatusWritten(ms.rw.calls) = <<StatusInternalServerError>>

====
